---- MODULE Spec2Model ----
(***************************************************************************)
(* The dual-record synchronisation layer of the career-recommendation app: *)
(* the summary store (localStorage "csv_users" merged with the baseline    *)
(* data/d.csv), the detail store (localStorage "user_json_<key>"), the     *)
(* deletion-tracking list, the session object, and the operations of       *)
(* utils/userStorage.js, utils/csv.js and services/authService.js.         *)
(*                                                                         *)
(* A JS object is a record whose domain is the set of its own keys: a key  *)
(* that is absent reads as undefined.  Names and emails are sequences of   *)
(* one-character strings, so that toLowerCase, the key derivation and the  *)
(* email pattern are computed character by character; every other text     *)
(* field is a string.                                                      *)
(***************************************************************************)
EXTENDS Integers, Sequences, FiniteSets, TLC

VARIABLES
    baseline,        \* rows parseCSV yields for data/d.csv (never written)
    csv_users,       \* localStorage "csv_users": the locally held rows
    user_json,       \* localStorage "user_json_<key>": key -> detail record
    user_files,      \* localStorage "user_files": name -> key
    deleted_images,  \* localStorage "deleted_images"
    currentUser,     \* localStorage "currentUser": <<>> or <<session>>
    saved,           \* localStorage "saved": the saved career ids
    uploads,         \* the number of profile images uploaded so far
    registered,      \* history: the emails registerUser has accepted
    ops,             \* the number of operations completed so far
    ret,             \* the last completed call and its result
    pending,         \* the saveUserDataDual calls in progress
    timers,          \* CareerFeed: the timeouts set and not yet run
    signedIn,        \* history: a login or registration has succeeded and
                     \* logoutUser has not been called since
    savedBy          \* history: <<email, id>> when Save was clicked on the
                     \* career id under the session of that email

vars == <<baseline, csv_users, user_json, user_files, deleted_images,
          currentUser, saved, uploads, registered, ops, ret, pending,
          timers, signedIn, savedBy>>

-----------------------------------------------------------------------------
(* Bounds of the model *)

\* readCSV results longer than this are not explored further
MaxRows == 3

\* profile images uploaded in one behaviour
MaxUploads == 1

\* operations completed in one behaviour
MaxOps == 4

-----------------------------------------------------------------------------
(* Text values *)

NameAl   == <<"A", "l">>
NameAl2  == <<"a", "l">>
NameA_l  == <<"A", " ", "l">>
NameAdl  == <<"A", "-", "l">>
NameBo   == <<"B", "o">>
NameAdmin == <<"A", "d", "m", "i", "n">>

MailA    == <<"a", "@", "x", ".", "t">>
MailA2   == <<"A", "@", "x", ".", "t">>
MailB    == <<"b", "@", "x", ".", "t">>
MailAdmin == <<"a", "d", "m", "i", "n">>
MailAdminUp == <<"A", "d", "m", "i", "n">>

Empty == << >>

\* String.prototype.toLowerCase, one character (the letters in use)
LowerChar(c) ==
    CASE c = "A" -> "a"
      [] c = "B" -> "b"
      [] OTHER -> c

\* String.prototype.toLowerCase
toLowerCase(s) == [i \in 1..Len(s) |-> LowerChar(s[i])]

AlnumChars == {"A", "B", "C", "D", "a", "b", "c", "d", "i", "l", "m", "n",
               "o", "t", "x", "0", "1"}

IsWhitespace(c) == c \in {" "}

\* /\s+/g -> "_": every maximal run of whitespace becomes one underscore
RECURSIVE ReplaceWhitespaceRuns(_)
ReplaceWhitespaceRuns(s) ==
    IF s = << >> THEN << >>
    ELSE IF IsWhitespace(Head(s))
         THEN IF Len(s) > 1 /\ IsWhitespace(s[2])
              THEN ReplaceWhitespaceRuns(Tail(s))
              ELSE <<"_">> \o ReplaceWhitespaceRuns(Tail(s))
         ELSE <<Head(s)>> \o ReplaceWhitespaceRuns(Tail(s))

\* /[^a-zA-Z0-9]/g -> "_": every single character outside the class
ReplaceNonAlnum(s) ==
    [i \in 1..Len(s) |-> IF s[i] \in AlnumChars THEN s[i] ELSE "_"]

\* getFileName: the key of the detail record of a name
getFileName(name) ==
    toLowerCase(ReplaceWhitespaceRuns(ReplaceNonAlnum(name)))

NotSpaceAt(c) == ~IsWhitespace(c) /\ c # "@"

\* isValidEmail: /^[^\s@]+@[^\s@]+\.[^\s@]+$/
isValidEmail(email) ==
    \E i \in 2..Len(email) :
        /\ email[i] = "@"
        /\ \A k \in 1..(i - 1) : NotSpaceAt(email[k])
        /\ \A k \in (i + 1)..Len(email) : NotSpaceAt(email[k])
        /\ \E j \in (i + 2)..(Len(email) - 1) : email[j] = "."

\* Array.prototype.join("; ")
RECURSIVE JoinTitles(_)
JoinTitles(list) ==
    IF list = << >> THEN ""
    ELSE IF Len(list) = 1 THEN list[1]
    ELSE list[1] \o "; " \o JoinTitles(Tail(list))

-----------------------------------------------------------------------------
(* JS objects *)

Has(obj, f) == f \in DOMAIN obj

\* obj.f || "" for a string field
StrOr(obj, f) == IF Has(obj, f) THEN obj[f] ELSE ""

\* obj.f || "" for a field holding a name or an email
TextOr(obj, f) == IF Has(obj, f) THEN obj[f] ELSE Empty

\* obj.f || [] for an array field
ListOr(obj, f) == IF Has(obj, f) THEN obj[f] ELSE << >>

\* a.f === b.f, where an absent key reads as undefined on both sides
SameField(a, b, f) ==
    IF Has(a, f) /\ Has(b, f) THEN a[f] = b[f]
    ELSE ~Has(a, f) /\ ~Has(b, f)

\* obj.f?.toLowerCase() === text.toLowerCase()
LowerMatches(obj, f, text) ==
    Has(obj, f) /\ toLowerCase(obj[f]) = toLowerCase(text)

\* { ...obj, f: v }
With(obj, f, v) ==
    [k \in DOMAIN obj \cup {f} |-> IF k = f THEN v ELSE obj[k]]

\* const { f: _, ...rest } = obj
Without(obj, f) == [k \in DOMAIN obj \ {f} |-> obj[k]]

\* the element of a singleton.  A const declaration "const x = v; e" is
\* written One({e : x \in {v}}): v is computed once and e reads it as x.
One(S) == CHOOSE y \in S : TRUE

\* the least of the indices `hits`, or 0 when there is none (findIndex + 1)
FirstOf(hits) ==
    One({IF h = {} THEN 0 ELSE CHOOSE i \in h : \A j \in h : i <= j :
         h \in {hits}})

-----------------------------------------------------------------------------
(* utils/avatars.js *)

\* the catalogue, cut to one file of each gender
avatarCatalog ==
    << [file |-> "01_female_2001.jpg.jpg", gender |-> "female"],
       [file |-> "02_male_1998.jpg.jpg", gender |-> "male"] >>

\* the draws of Math.random() explored, as the index drawn from a pool
\* (cut to the first entry of the pool)
RandomDraws == {0}

MatchesGender(avatar, gender) == avatar.gender = gender

\* getRandomAvatarFile: the gender's files, or the whole catalogue when the
\* gender has none; r is the draw of Math.random()
getRandomAvatarFile(gender, r) ==
    LET genderSpecific ==
            SelectSeq(avatarCatalog, LAMBDA a : MatchesGender(a, gender))
        pool == IF Len(genderSpecific) > 0 THEN genderSpecific
                ELSE avatarCatalog
    IN pool[(r % Len(pool)) + 1].file

\* getAvatarUrl: the bundled URL of a catalogue file, else the default one
getAvatarUrl(fileName) ==
    IF \E i \in 1..Len(avatarCatalog) : avatarCatalog[i].file = fileName
    THEN "assets/" \o fileName
    ELSE "assets/" \o avatarCatalog[1].file

\* withAvatarMetadata
withAvatarMetadata(user, r) ==
    One({With(With(user, "avatar", fileName),
              "avatarUrl", getAvatarUrl(fileName)) :
         fileName \in {IF StrOr(user, "avatar") # "" THEN user.avatar
                       ELSE getRandomAvatarFile(StrOr(user, "gender"), r)}})

-----------------------------------------------------------------------------
(* utils/csv.js *)

\* readCSV, the merge loop: a cached row is appended unless some row
\* already taken has the same email property
RECURSIVE MergeCached(_, _)
MergeCached(allUsers, cachedUsers) ==
    IF cachedUsers = << >> THEN allUsers
    ELSE LET cachedUser == Head(cachedUsers)
             found == \E i \in 1..Len(allUsers) :
                          SameField(allUsers[i], cachedUser, "email")
         IN One({MergeCached(merged, Tail(cachedUsers)) :
                 merged \in {IF found THEN allUsers
                             ELSE Append(allUsers, cachedUser)}})

\* readCSV, the normalisation: a row without avatar gets a random one
NormalizeUser(user, r) ==
    IF StrOr(user, "avatar") # "" THEN user
    ELSE With(user, "avatar", getRandomAvatarFile(StrOr(user, "gender"), r))

\* fault variant of readCSV: a failed fetch yields no rows
readCSVWithoutFallback(cached, ok, r) ==
    IF ok
    THEN One({[users |-> normalizedUsers, cache |-> normalizedUsers] :
              normalizedUsers \in
                  {One({[i \in 1..Len(allUsers) |->
                            NormalizeUser(allUsers[i], r)] :
                        allUsers \in {MergeCached(baseline, cached)}})}})
    ELSE [users |-> << >>, cache |-> cached]

\* fault variant of readCSV: a failed fetch empties the cache
readCSVClearingCache(cached, ok, r) ==
    IF ok
    THEN One({[users |-> normalizedUsers, cache |-> normalizedUsers] :
              normalizedUsers \in
                  {One({[i \in 1..Len(allUsers) |->
                            NormalizeUser(allUsers[i], r)] :
                        allUsers \in {MergeCached(baseline, cached)}})}})
    ELSE [users |-> cached, cache |-> << >>]

\* readCSV on the cache `cached`; ok says whether data/d.csv could be
\* fetched.  Yields the rows returned and the cache left behind.
readCSV(cached, ok, r) ==
    IF ok
    THEN One({[users |-> normalizedUsers, cache |-> normalizedUsers] :
              normalizedUsers \in
                  {One({[i \in 1..Len(allUsers) |->
                            NormalizeUser(allUsers[i], r)] :
                        allUsers \in {MergeCached(baseline, cached)}})}})
    ELSE [users |-> cached, cache |-> cached]

\* fault variant of EmailMatches: the emails are compared as they are
EmailMatchesExactly(user, email) ==
    \/ Has(user, "email") /\ user.email = email
    \/ Has(user, "email_address") /\ user.email_address = email

EmailMatches(user, email) ==
    \/ LowerMatches(user, "email", email)
    \/ LowerMatches(user, "email_address", email)

NameMatches(user, name) ==
    \/ LowerMatches(user, "name", name)
    \/ LowerMatches(user, "full_name", name)

\* the index of the first row with the email, or 0
EmailIndex(users, email) ==
    FirstOf({i \in 1..Len(users) : EmailMatches(users[i], email)})

\* the index of the first row with the name, or 0
NameIndex(users, name) ==
    FirstOf({i \in 1..Len(users) : NameMatches(users[i], name)})

\* findUserByEmail: <<row>> for the first match, << >> for null
findUserByEmail(cached, email, ok, r) ==
    One({[user |-> One({IF i = 0 THEN << >> ELSE <<rd.users[i]>> :
                        i \in {EmailIndex(rd.users, email)}}),
          cache |-> rd.cache] :
         rd \in {readCSV(cached, ok, r)}})

\* findUserByName
findUserByName(cached, name, ok, r) ==
    One({[user |-> One({IF i = 0 THEN << >> ELSE <<rd.users[i]>> :
                        i \in {NameIndex(rd.users, name)}}),
          cache |-> rd.cache] :
         rd \in {readCSV(cached, ok, r)}})

\* addUser: << >> for null, <<newUser>> otherwise
addUser(cached, userObject, ok1, ok2, r) ==
    LET newUser == [name |-> userObject.name,
                    email |-> userObject.email,
                    password |-> userObject.password,
                    gender |-> userObject.gender,
                    year |-> userObject.year,
                    country |-> userObject.country,
                    avatar |-> IF StrOr(userObject, "avatar") # ""
                               THEN userObject.avatar
                               ELSE getRandomAvatarFile(userObject.gender, r)]
    IN One({IF existing.user # << >>
            THEN [user |-> << >>, cache |-> existing.cache]
            ELSE [user |-> <<newUser>>,
                  cache |-> Append(readCSV(existing.cache, ok2, r).users,
                                   newUser)] :
            existing \in {findUserByEmail(cached, userObject.email,
                                          ok1, r)}})

LoginError == "Invalid email address or password"

\* validateLogin without line 333: the row is returned with its password
validateLoginKeepingPassword(cached, email, password, ok, r) ==
    One({IF f.user = << >>
         THEN [success |-> FALSE, user |-> << >>, error |-> LoginError,
               cache |-> f.cache]
         ELSE IF StrOr(f.user[1], "password") # password
              \/ ~Has(f.user[1], "password")
         THEN [success |-> FALSE, user |-> << >>, error |-> LoginError,
               cache |-> f.cache]
         ELSE [success |-> TRUE, user |-> <<f.user[1]>>,
               error |-> "", cache |-> f.cache] :
         f \in {findUserByEmail(cached, email, ok, r)}})

\* validateLogin
validateLogin(cached, email, password, ok, r) ==
    One({IF f.user = << >>
         THEN [success |-> FALSE, user |-> << >>, error |-> LoginError,
               cache |-> f.cache]
         ELSE IF StrOr(f.user[1], "password") # password
              \/ ~Has(f.user[1], "password")
         THEN [success |-> FALSE, user |-> << >>, error |-> LoginError,
               cache |-> f.cache]
         ELSE [success |-> TRUE, user |-> <<Without(f.user[1], "password")>>,
               error |-> "", cache |-> f.cache] :
         f \in {findUserByEmail(cached, email, ok, r)}})

-----------------------------------------------------------------------------
(* utils/userStorage.js.  The stores travel through a call as one record  *)
(* S = [csv, json, files, del]; null names and paths are the empty text,  *)
(* which the code treats alike (both are falsy).                          *)

Stores == [csv |-> csv_users, json |-> user_json, files |-> user_files,
           del |-> deleted_images]

\* localStorage.removeItem / delete obj[k]
Remove(map, k) == [x \in DOMAIN map \ {k} |-> map[x]]

\* JSON array or string: recommendations_selected is written as a list
\* by the career feed and read back from the summary row as a string
Arr(list) == [arr |-> list]
Str(text) == [str |-> text]
IsArray(v) == Has(v, "arr")

\* the empty list as the field f of a detail record holds it
NoItems(f) == IF f = "recommendations_selected" THEN Arr(<< >>) ELSE << >>

\* fault variant of saveUserJson: the record under the old key is left in
\* place when the name changes
saveUserJsonKeepingOld(S, name, userData, oldName) ==
    [saved |-> TRUE,
     S |-> [S EXCEPT !.json = With(S.json, getFileName(name), userData),
                     !.files = With(S.files, name, getFileName(name))]]

\* fault variant of saveUserJson: a key that holds the record of another
\* name is not overwritten
saveUserJsonDetectingCollision(S, name, userData, oldName) ==
    IF /\ getFileName(name) \in DOMAIN S.json
       /\ S.json[getFileName(name)].full_name # name
    THEN [saved |-> FALSE, S |-> S]
    ELSE [saved |-> TRUE,
          S |-> [S EXCEPT !.json = With(S.json, getFileName(name), userData),
                          !.files = With(S.files, name, getFileName(name))]]

\* saveUserJson (the key-value store accepts every write)
saveUserJson(S, name, userData, oldName) ==
    LET fileName == getFileName(name)
        renamed == oldName # Empty /\ oldName # name
        json1 == IF renamed THEN Remove(S.json, getFileName(oldName))
                 ELSE S.json
        files1 == IF renamed THEN Remove(S.files, oldName) ELSE S.files
    IN [saved |-> TRUE,
        S |-> [S EXCEPT !.json = With(json1, fileName, userData),
                        !.files = With(files1, name, fileName)]]

\* loadUserJson: <<record>>, or << >> for null
loadUserJson(json, name) ==
    One({IF fileName \in DOMAIN json THEN <<json[fileName]>> ELSE << >> :
         fileName \in {getFileName(name)}})

\* deleteOldImage
deleteOldImage(deletedImages, imagePath) ==
    IF imagePath = "" THEN deletedImages
    ELSE IF \E i \in 1..Len(deletedImages) : deletedImages[i] = imagePath
    THEN deletedImages
    ELSE Append(deletedImages, imagePath)

\* updateCSVRow, the row written: the nine summary fields of updatedData
SummaryRow(updatedData) ==
    [full_name |-> TextOr(updatedData, "full_name"),
     email_address |-> TextOr(updatedData, "email_address"),
     password |-> StrOr(updatedData, "password"),
     gender |-> StrOr(updatedData, "gender"),
     country |-> StrOr(updatedData, "country"),
     year |-> StrOr(updatedData, "year"),
     profile_picture |-> StrOr(updatedData, "profile_picture"),
     recommendations_selected |-> StrOr(updatedData, "recommendations_selected"),
     bio |-> StrOr(updatedData, "bio")]

\* updateCSVRow
updateCSVRow(S, email, updatedData, oldImagePath, ok, r) ==
    One({One({IF userIndex = 0
              THEN [updated |-> FALSE, S |-> [S EXCEPT !.csv = rd.cache]]
              ELSE [updated |-> TRUE,
                    S |-> [S EXCEPT
                             !.del = IF oldImagePath # ""
                                        /\ oldImagePath
                                             # updatedData.profile_picture
                                     THEN deleteOldImage(S.del, oldImagePath)
                                     ELSE S.del,
                             !.csv = [rd.users EXCEPT
                                        ![userIndex] =
                                            SummaryRow(updatedData)]]] :
              userIndex \in {EmailIndex(rd.users, email)}}) :
         rd \in {readCSV(S.csv, ok, r)}})

\* userData.full_name || userData.name
PayloadName(userData) ==
    IF TextOr(userData, "full_name") # Empty THEN userData.full_name
    ELSE TextOr(userData, "name")

\* userData.email_address || userData.email
PayloadEmail(userData) ==
    IF TextOr(userData, "email_address") # Empty THEN userData.email_address
    ELSE TextOr(userData, "email")

\* fault variant of DetailRecord: an empty list of the payload is filled
\* from the record already stored under the payload's name
DetailRecordMerging(userData) ==
    LET stored == loadUserJson(user_json, PayloadName(userData))
        Kept(f, mine) == IF mine = NoItems(f) /\ stored # << >>
                         THEN stored[1][f] ELSE mine
    IN [full_name |-> PayloadName(userData),
        email_address |-> PayloadEmail(userData),
        password |-> StrOr(userData, "password"),
        gender |-> StrOr(userData, "gender"),
        country |-> StrOr(userData, "country"),
        year |-> StrOr(userData, "year"),
        education |-> StrOr(userData, "education"),
        interests |-> Kept("interests", ListOr(userData, "interests")),
        custom_interest |-> StrOr(userData, "custom_interest"),
        skills |-> Kept("skills", ListOr(userData, "skills")),
        custom_skill |-> StrOr(userData, "custom_skill"),
        profile_picture |-> StrOr(userData, "profile_picture"),
        bio |-> StrOr(userData, "bio"),
        recommendations_saved |->
            Kept("recommendations_saved",
                 ListOr(userData, "recommendations_saved")),
        recommendations_selected |->
            Kept("recommendations_selected",
                 IF ~Has(userData, "recommendations_selected")
                    \/ userData.recommendations_selected = Str("")
                 THEN Arr(<< >>)
                 ELSE userData.recommendations_selected),
        recommendations_rejected |->
            Kept("recommendations_rejected",
                 ListOr(userData, "recommendations_rejected"))]

\* saveUserDataDual, the detail record built from the payload
DetailRecord(userData) ==
    [full_name |-> PayloadName(userData),
     email_address |-> PayloadEmail(userData),
     password |-> StrOr(userData, "password"),
     gender |-> StrOr(userData, "gender"),
     country |-> StrOr(userData, "country"),
     year |-> StrOr(userData, "year"),
     education |-> StrOr(userData, "education"),
     interests |-> ListOr(userData, "interests"),
     custom_interest |-> StrOr(userData, "custom_interest"),
     skills |-> ListOr(userData, "skills"),
     custom_skill |-> StrOr(userData, "custom_skill"),
     profile_picture |-> StrOr(userData, "profile_picture"),
     bio |-> StrOr(userData, "bio"),
     recommendations_saved |-> ListOr(userData, "recommendations_saved"),
     recommendations_selected |->
         IF ~Has(userData, "recommendations_selected")
            \/ userData.recommendations_selected = Str("")
         THEN Arr(<< >>)
         ELSE userData.recommendations_selected,
     recommendations_rejected |-> ListOr(userData, "recommendations_rejected")]

\* saveUserDataDual, the summary data derived from the payload
SummaryData(userData) ==
    [full_name |-> PayloadName(userData),
     email_address |-> PayloadEmail(userData),
     password |-> StrOr(userData, "password"),
     gender |-> StrOr(userData, "gender"),
     country |-> StrOr(userData, "country"),
     year |-> StrOr(userData, "year"),
     profile_picture |-> StrOr(userData, "profile_picture"),
     recommendations_selected |->
         IF ~Has(userData, "recommendations_selected") THEN ""
         ELSE IF IsArray(userData.recommendations_selected)
         THEN JoinTitles(userData.recommendations_selected.arr)
         ELSE userData.recommendations_selected.str,
     bio |-> StrOr(userData, "bio")]

\* saveUserDataDual, its second half: the row of `email` is overwritten by
\* updateCSVRow when findUserByEmail finds one, and appended otherwise
WriteSummary(S, email, csvData, oldImagePath, ok1, ok2, r) ==
    One({IF existingUser.user # << >>
         THEN updateCSVRow([S EXCEPT !.csv = existingUser.cache], email,
                           csvData, oldImagePath, ok2, r).S
         ELSE [S EXCEPT !.csv = Append(readCSV(existingUser.cache,
                                               ok2, r).users, csvData)] :
         existingUser \in {findUserByEmail(S.csv, email, ok1, r)}})

\* fault variant of saveUserDataDual: the detail record is written before
\* the name and the email are checked
saveUserDataDualCheckingLate(S, userData, oldName, oldImagePath, ok1, ok2, r) ==
    One({IF PayloadName(userData) = Empty \/ PayloadEmail(userData) = Empty
         THEN [result |-> FALSE, S |-> js.S]
         ELSE [result |-> js.saved,
               S |-> WriteSummary(js.S, PayloadEmail(userData),
                                  SummaryData(userData), oldImagePath,
                                  ok1, ok2, r)] :
         js \in {saveUserJson(S, PayloadName(userData),
                              DetailRecord(userData), oldName)}})

\* saveUserDataDual; ok1 and ok2 are the outcomes of the two fetches of
\* data/d.csv it makes (findUserByEmail, then updateCSVRow or readCSV)
saveUserDataDual(S, userData, oldName, oldImagePath, ok1, ok2, r) ==
    LET fullName == PayloadName(userData)
        email == PayloadEmail(userData)
    IN IF fullName = Empty \/ email = Empty
       THEN [result |-> FALSE, S |-> S]
       ELSE One({[result |-> js.saved,
                  S |-> WriteSummary(js.S, email, SummaryData(userData),
                                     oldImagePath, ok1, ok2, r)] :
                 js \in {saveUserJson(S, fullName, DetailRecord(userData),
                                      oldName)}})

\* checkUserExists; ok1 and ok2 are the outcomes of its two fetches
checkUserExists(cached, name, email, ok1, ok2, r) ==
    One({One({[exists |-> byName.user # << >> \/ byEmail.user # << >>,
               byName |-> byName.user # << >>,
               byEmail |-> byEmail.user # << >>,
               cache |-> byEmail.cache] :
              byEmail \in {findUserByEmail(byName.cache, email, ok2, r)}}) :
         byName \in {findUserByName(cached, name, ok1, r)}})

-----------------------------------------------------------------------------
(* services/authService.js *)

AdminPassword == "admin"

AdminObject ==
    [name |-> NameAdmin, email |-> MailAdmin, password |-> AdminPassword,
     gender |-> "male", year |-> "1990", country |-> "Bangladesh"]

\* initializeAdminUser without the two lookups of the email 'admin'
initializeAdminUserUnguarded(cached, ok1, ok2, ok3, r) ==
    Append(readCSV(cached, ok3, r).users,
           With(AdminObject, "avatar", getRandomAvatarFile("male", r)))


\* initializeAdminUser: the cache it leaves
initializeAdminUser(cached, ok1, ok2, ok3, r) ==
    One({IF adminExists.user = << >>
         THEN addUser(adminExists.cache, AdminObject, ok2, ok3, r).cache
         ELSE adminExists.cache :
         adminExists \in {findUserByEmail(cached, MailAdmin, ok1, r)}})

\* { ...user, ...(userJson && { education, interests, ... }) }
MergeDetail(user, userJson) ==
    IF userJson = << >> THEN user
    ELSE [k \in {"education", "interests", "skills", "custom_interest",
                 "custom_skill", "recommendations_saved",
                 "recommendations_rejected"} |-> userJson[1][k]] @@ user

\* loginUser, the session object built from the row validateLogin returns
SessionOf(user, json, r) ==
    One({LET userName == IF TextOr(userWithAvatar, "name") # Empty
                         THEN userWithAvatar.name
                         ELSE TextOr(userWithAvatar, "full_name")
         IN MergeDetail(userWithAvatar,
                        IF userName # Empty THEN loadUserJson(json, userName)
                        ELSE << >>) :
         userWithAvatar \in {withAvatarMetadata(user, r)}})

\* loginUser: its result, the session it stores (<<>>: none stored) and
\* the cache it leaves
loginUser(cached, json, email, password, ok, r) ==
    IF toLowerCase(email) = MailAdmin /\ password = AdminPassword
    THEN One({[success |-> TRUE, user |-> <<adminWithMeta>>, error |-> "",
               session |-> <<adminWithMeta>>, cache |-> cached] :
              adminWithMeta \in
                  {withAvatarMetadata(
                       [email |-> MailAdmin, name |-> NameAdmin,
                        avatar |-> getRandomAvatarFile("male", r)], r)}})
    ELSE One({IF result.success
              THEN One({[success |-> TRUE, user |-> <<userWithData>>,
                         error |-> "", session |-> <<userWithData>>,
                         cache |-> result.cache] :
                        userWithData \in
                            {SessionOf(result.user[1], json, r)}})
              ELSE [success |-> FALSE, user |-> << >>,
                    error |-> result.error, session |-> << >>,
                    cache |-> result.cache] :
              result \in {validateLogin(cached, email, password, ok, r)}})

MinPasswordLength == 6

ExistsError == "Account already exists. Please log in instead."
CreateError == "Failed to create account. Please try again."

\* registerUser, the validation of the form: "" when it passes
RegisterValidation(name, email, password, confirmPassword, gender, year, country) ==
    IF \/ name = Empty \/ email = Empty \/ password = ""
       \/ confirmPassword = "" \/ gender = "" \/ year = "" \/ country = ""
    THEN "Please fill in all fields"
    ELSE IF ~isValidEmail(email) THEN "Please enter a valid email address"
    ELSE IF password # confirmPassword THEN "Passwords do not match"
    ELSE IF Len(password) < MinPasswordLength
    THEN "Password must be at least 6 characters"
    ELSE ""

\* registerUser, the payload handed to saveUserDataDual
RegisterPayload(name, email, password, gender, year, country, avatarFile) ==
    [full_name |-> name, email_address |-> email, password |-> password,
     gender |-> gender, country |-> country, year |-> year,
     education |-> "", interests |-> << >>, custom_interest |-> "",
     skills |-> << >>, custom_skill |-> "",
     profile_picture |-> "Faces/" \o avatarFile,
     recommendations_saved |-> << >>, recommendations_rejected |-> << >>]

\* registerUser, after checkUserExists found nobody: the two records are
\* written and the session is stored
CreateAccount(S, name, email, password, gender, year, country, ok1, ok2, r) ==
    One({One({IF ~dual.result
              THEN [success |-> FALSE, error |-> CreateError,
                    session |-> << >>, saveCalled |-> TRUE, S |-> dual.S]
              ELSE [success |-> TRUE, error |-> "",
                    session |-> <<withAvatarMetadata(
                                      [email |-> email, name |-> name,
                                       gender |-> gender, year |-> year,
                                       country |-> country,
                                       avatar |-> avatarFile], r)>>,
                    saveCalled |-> TRUE, S |-> dual.S] :
              dual \in {saveUserDataDual(
                            S, RegisterPayload(name, email, password, gender,
                                               year, country, avatarFile),
                            Empty, "", ok1, ok2, r)}}) :
         avatarFile \in {getRandomAvatarFile(gender, r)}})

\* registerUser; oks are the outcomes of its four fetches of data/d.csv
\* (two in checkUserExists, two in saveUserDataDual)
registerUser(S, name, email, password, confirmPassword, gender, year, country, oks, r) ==
    One({IF invalid # ""
         THEN [success |-> FALSE, error |-> invalid, session |-> << >>,
               saveCalled |-> FALSE, S |-> S]
         ELSE One({IF userExists.exists
                   THEN [success |-> FALSE, error |-> ExistsError,
                         session |-> << >>, saveCalled |-> FALSE,
                         S |-> [S EXCEPT !.csv = userExists.cache]]
                   ELSE CreateAccount([S EXCEPT !.csv = userExists.cache],
                                      name, email, password, gender, year,
                                      country, oks[3], oks[4], r) :
                   userExists \in {checkUserExists(S.csv, name, email,
                                                   oks[1], oks[2], r)}}) :
         invalid \in {RegisterValidation(name, email, password,
                                         confirmPassword, gender, year,
                                         country)}})

\* getCurrentUser
getCurrentUser(stored, r) ==
    IF stored = << >> THEN << >> ELSE <<withAvatarMetadata(stored[1], r)>>

-----------------------------------------------------------------------------
(* The baseline data/d.csv: its header is in the legacy format             *)
(* (name,email,...) or in the new one (full_name,email_address,...);       *)
(* parseCSV gives every row exactly the header's columns.                  *)

BasePassword == "bopass1"

LegacyBaseRow ==
    [name |-> NameBo, email |-> MailB, password |-> BasePassword,
     gender |-> "male", year |-> "1999", country |-> "BD"]

NewBaseRow ==
    [full_name |-> NameBo, email_address |-> MailB,
     password |-> BasePassword, gender |-> "male", country |-> "BD",
     year |-> "1999", profile_picture |-> "Faces/02_male_1998.jpg.jpg"]

Baselines == { << >>, <<LegacyBaseRow>>, <<NewBaseRow>> }

-----------------------------------------------------------------------------
(* Inputs *)

SignupPassword == "secret1"
LoginEmails == {MailA2, MailB, MailAdminUp}
LoginPasswords == {SignupPassword, BasePassword, AdminPassword}

\* the signup form: (name, email, password, confirmPassword)
SignupForms ==
    { <<NameAl, MailA, SignupPassword, SignupPassword>>,
      <<NameA_l, MailA2, SignupPassword, SignupPassword>>,
      <<NameAdl, MailB, SignupPassword, SignupPassword>>,
      <<NameAl, MailAdmin, SignupPassword, SignupPassword>>,
      <<NameAl, MailA, "abc", "abc">> }

FetchOutcomes == BOOLEAN

\* one more operation has completed
Counted == ops < MaxOps /\ ops' = ops + 1

Written(S) ==
    /\ csv_users' = S.csv
    /\ user_json' = S.json
    /\ user_files' = S.files
    /\ deleted_images' = S.del

Init ==
    /\ baseline \in Baselines
    /\ csv_users = << >>
    /\ user_json = << >>
    /\ user_files = << >>
    /\ deleted_images = << >>
    /\ currentUser = << >>
    /\ saved = << >>
    /\ uploads = 0
    /\ registered = {}
    /\ ops = 0
    /\ ret = [op |-> "none"]
    /\ pending = << >>
    /\ timers = << >>
    /\ signedIn = FALSE
    /\ savedBy = {}

-----------------------------------------------------------------------------
(* Operations of the application.  Every fetch of data/d.csv a handler    *)
(* makes has the outcome ok drawn for the handler.  A handler's result is  *)
(* bound once (\E res \in {...}) and then written to the stores.           *)

\* App's mount effect: initializeAdminUser
InitializeAdminUser ==
    /\ Counted
    /\ \E ok \in FetchOutcomes, r \in RandomDraws :
        \E cache \in {initializeAdminUser(csv_users, ok, ok, ok, r)} :
           /\ Len(cache) <= MaxRows
           /\ csv_users' = cache
           /\ ret' = [op |-> "initializeAdminUser"]
           /\ UNCHANGED <<savedBy, timers, signedIn, pending, baseline,
                          user_json, user_files, deleted_images, currentUser,
                          saved, uploads, registered>>

\* a read of the summary store (getCSVString)
ReadCSV ==
    /\ Counted
    /\ \E ok \in FetchOutcomes, r \in RandomDraws :
        \E rd \in {readCSV(csv_users, ok, r)} :
           /\ Len(rd.cache) <= MaxRows
           /\ csv_users' = rd.cache
           /\ ret' = [op |-> "readCSV", ok |-> ok, users |-> rd.users]
           /\ UNCHANGED <<savedBy, timers, signedIn, pending, baseline,
                          user_json, user_files, deleted_images, currentUser,
                          saved, uploads, registered>>

\* some row of the baseline or of the local rows has the name or the email
InStore(name, email) ==
    \E rows \in {baseline, csv_users} : \E i \in 1..Len(rows) :
        NameMatches(rows[i], name) \/ EmailMatches(rows[i], email)

\* SignupPage: registerUser; known says that an earlier registerUser has
\* accepted the email, fresh that no row held the name or the email
RegisterUser ==
    /\ Counted
    /\ \E form \in SignupForms, ok \in FetchOutcomes, r \in RandomDraws :
        \E res \in {registerUser(Stores, form[1], form[2], form[3], form[4],
                                 "female", "2001", "BD",
                                 <<ok, ok, ok, ok>>, r)} :
        LET call == [op |-> "registerUser", success |-> res.success,
                     error |-> res.error, saveCalled |-> res.saveCalled,
                     valid |-> RegisterValidation(form[1], form[2], form[3],
                                                  form[4], "female", "2001",
                                                  "BD") = "",
                     known |-> toLowerCase(form[2]) \in registered,
                     fresh |-> ~InStore(form[1], form[2]),
                     name |-> form[1], email |-> form[2]]
        IN /\ Len(res.S.csv) <= MaxRows
           /\ Written(res.S)
           /\ currentUser' = IF res.session # << >> THEN res.session
                             ELSE currentUser
           /\ registered' = IF res.success
                            THEN registered \cup {toLowerCase(form[2])}
                            ELSE registered
           /\ ret' = IF res.success
                     THEN call @@ [password |-> form[3]]
                     ELSE call
           /\ signedIn' = (res.success \/ signedIn)
           /\ UNCHANGED <<savedBy, timers, pending, baseline, saved,
                          uploads>>

\* LoginPage: loginUser
LoginUser ==
    /\ Counted
    /\ \E email \in LoginEmails, password \in LoginPasswords,
       ok \in FetchOutcomes, r \in RandomDraws :
        \E res \in {loginUser(csv_users, user_json, email, password,
                              ok, r)} :
           /\ Len(res.cache) <= MaxRows
           /\ csv_users' = res.cache
           /\ currentUser' = IF res.session # << >> THEN res.session
                             ELSE currentUser
           /\ ret' = [op |-> "loginUser", success |-> res.success,
                      error |-> res.error, email |-> email,
                      password |-> password, ok |-> ok]
           /\ signedIn' = (res.success \/ signedIn)
           /\ UNCHANGED <<savedBy, timers, pending, baseline, user_json,
                          user_files, deleted_images, saved, uploads,
                          registered>>

\* Navbar: logoutUser
LogoutUser ==
    /\ Counted
    /\ currentUser # << >>
    /\ currentUser' = << >>
    /\ ret' = [op |-> "logoutUser"]
    /\ signedIn' = FALSE
    /\ UNCHANGED <<savedBy, timers, pending, baseline, csv_users, user_json,
                   user_files, deleted_images, saved, uploads, registered>>

-----------------------------------------------------------------------------
(* pages/ProfileQuizPage.jsx *)

EmptyForm ==
    [name |-> Empty, email |-> Empty, education |-> "", interests |-> << >>,
     customInterest |-> "", skills |-> << >>, customSkill |-> "",
     bio |-> "", profilePicture |-> ""]

\* the mount effect loadUserData: the form and the two originals
LoadedProfile(cu, json) ==
    IF TextOr(cu, "name") = Empty
    THEN [form |-> EmptyForm, originalName |-> Empty,
          originalImagePath |-> ""]
    ELSE
    One({
       IF userJson # << >>
       THEN [form |->
                 [name |-> userJson[1].full_name,
                  email |-> IF userJson[1].email_address # Empty
                            THEN userJson[1].email_address
                            ELSE TextOr(cu, "email"),
                  education |-> userJson[1].education,
                  interests |-> userJson[1].interests,
                  customInterest |-> userJson[1].custom_interest,
                  skills |-> userJson[1].skills,
                  customSkill |-> userJson[1].custom_skill,
                  bio |-> userJson[1].bio,
                  profilePicture |-> userJson[1].profile_picture],
             originalName |-> userJson[1].full_name,
             originalImagePath |-> userJson[1].profile_picture]
       ELSE [form |-> [EmptyForm EXCEPT !.name = cu.name,
                                        !.email = TextOr(cu, "email")],
             originalName |-> cu.name, originalImagePath |-> ""] :
       userJson \in {loadUserJson(json, cu.name)}})

\* toggle(key, val)
Toggle(list, val) ==
    IF \E i \in 1..Len(list) : list[i] = val
    THEN SelectSeq(list, LAMBDA x : x # val)
    ELSE Append(list, val)

UploadNames == <<"u1.png", "u2.png", "u3.png">>

\* handleImageUpload: the path of the n-th uploaded file (the timestamp in
\* the file name makes every upload a new path)
UploadPath(n) == "Faces/" \o UploadNames[n]

\* path.replace("Faces/", "")
StripFaces(path) ==
    LET files == {avatarCatalog[i].file : i \in 1..Len(avatarCatalog)}
                 \cup {UploadNames[i] : i \in 1..Len(UploadNames)}
    IN IF \E f \in files : path = "Faces/" \o f
       THEN CHOOSE f \in files : path = "Faces/" \o f
       ELSE path

\* currentUser.recommendations_selected || []
SessionSelected(cu) ==
    IF StrOr(cu, "recommendations_selected") # ""
    THEN Str(cu.recommendations_selected)
    ELSE Arr(<< >>)

\* handleSave, the payload built from the form and the session
ProfilePayload(form, cu) ==
    [full_name |-> form.name,
     email_address |-> IF form.email # Empty THEN form.email
                       ELSE TextOr(cu, "email"),
     password |-> StrOr(cu, "password"),
     gender |-> StrOr(cu, "gender"),
     country |-> StrOr(cu, "country"),
     year |-> StrOr(cu, "year"),
     education |-> form.education,
     interests |-> form.interests,
     custom_interest |-> form.customInterest,
     skills |-> form.skills,
     custom_skill |-> form.customSkill,
     profile_picture |-> form.profilePicture,
     bio |-> form.bio,
     recommendations_saved |-> ListOr(cu, "recommendations_saved"),
     recommendations_selected |-> SessionSelected(cu),
     recommendations_rejected |-> ListOr(cu, "recommendations_rejected")]

\* handleSave on a page in state page = [form, originalName,
\* originalImagePath] for the session cu (<<cu>>, or << >> when logged out)
handleSave(S, session, page, ok1, ok2, r) ==
    LET cu == session[1]
        form == page.form
        oldName == IF page.originalName # Empty
                      /\ page.originalName # form.name
                   THEN page.originalName ELSE Empty
        oldImagePath == IF page.originalImagePath # ""
                           /\ page.originalImagePath # form.profilePicture
                        THEN page.originalImagePath ELSE ""
        updatedUser == With(With(cu, "name", form.name),
                            "avatar", StripFaces(form.profilePicture))
    IN IF session = << >> \/ TextOr(cu, "email") = Empty
       THEN [called |-> FALSE, saved |-> FALSE, session |-> << >>, S |-> S,
             payload |-> << >>]
       ELSE
       One({One({
          IF dual.result
          THEN [called |-> TRUE, saved |-> TRUE, session |-> <<updatedUser>>,
                S |-> dual.S, payload |-> <<userData>>]
          ELSE [called |-> TRUE, saved |-> FALSE, session |-> << >>,
                S |-> dual.S, payload |-> <<userData>>] :
          dual \in {saveUserDataDual(S, userData, oldName, oldImagePath,
                                     ok1, ok2, r)}}) :
          userData \in {ProfilePayload(form, cu)}})

\* what the user does to the loaded form before saving: nothing, a new
\* name typed, the skill "Python" toggled, or an image uploaded
FormEdits == {"none", "NameAl2", "NameA_l", "noName", "skill", "upload"}

EditedForm(form, edit, n) ==
    CASE edit = "NameAl2" -> [form EXCEPT !.name = NameAl2]
      [] edit = "NameA_l" -> [form EXCEPT !.name = NameA_l]
      [] edit = "noName" -> [form EXCEPT !.name = Empty]
      [] edit = "skill" ->
            [form EXCEPT !.skills = Toggle(form.skills, "Python")]
      [] edit = "upload" -> [form EXCEPT !.profilePicture = UploadPath(n + 1)]
      [] OTHER -> form

\* ProfileQuizPage: the page is opened, the form edited and Save clicked
ProfileSave ==
    /\ Counted
    /\ currentUser # << >>
    /\ \E edit \in FormEdits, ok \in FetchOutcomes, r \in RandomDraws :
        /\ edit = "upload" => uploads < MaxUploads
        /\ \E cu \in {getCurrentUser(currentUser, r)} :
           \E page \in {LoadedProfile(cu[1], user_json)} :
           \E res \in {handleSave(Stores, cu,
                                  [page EXCEPT !.form =
                                       EditedForm(page.form, edit, uploads)],
                                  ok, ok, r)} :
              /\ Len(res.S.csv) <= MaxRows
              /\ Written(res.S)
              /\ currentUser' = IF res.session # << >> THEN res.session
                                ELSE currentUser
              /\ uploads' = IF edit = "upload" THEN uploads + 1 ELSE uploads
              /\ ret' = [op |-> "handleSave", called |-> res.called,
                         saved |-> res.saved]
              /\ UNCHANGED <<savedBy, timers, signedIn, pending, baseline,
                             saved, registered>>

-----------------------------------------------------------------------------
(* pages/CareerFeed.jsx *)

\* data/careers_bd.json, two of its entries
catalog ==
    << [id |-> "se", title |-> "Software Engineer"],
       [id |-> "ml", title |-> "Machine Learning Engineer"] >>

CareerIds == {catalog[i].id : i \in 1..Len(catalog)}

\* new Set(prev).add(id), as the array Array.from gives
AddSaved(prev, id) ==
    IF \E i \in 1..Len(prev) : prev[i] = id THEN prev ELSE Append(prev, id)

\* the titles of the saved ids the catalogue knows
RECURSIVE SavedTitles(_)
SavedTitles(ids) ==
    IF ids = << >> THEN << >>
    ELSE LET hit == {i \in 1..Len(catalog) : catalog[i].id = Head(ids)}
         IN (IF hit = {} THEN << >>
             ELSE <<catalog[CHOOSE i \in hit : TRUE].title>>)
            \o SavedTitles(Tail(ids))

\* syncSavedToJson for the saved set `savedIds`
syncSavedToJson(S, session, savedIds, ok1, ok2, r) ==
    IF session = << >> \/ TextOr(session[1], "name") = Empty
    THEN [called |-> FALSE, saved |-> FALSE, S |-> S, payload |-> << >>]
    ELSE
    One({
       IF userJson = << >>
       THEN [called |-> FALSE, saved |-> FALSE, S |-> S, payload |-> << >>]
       ELSE
       One({One({
          [called |-> TRUE, saved |-> dual.result, S |-> dual.S,
           payload |-> <<updatedData>>] :
          dual \in {saveUserDataDual(S, updatedData, Empty, "",
                                     ok1, ok2, r)}}) :
          updatedData \in
              {[userJson[1] EXCEPT
                  !.recommendations_selected = Arr(SavedTitles(savedIds)),
                  !.recommendations_saved = savedIds]}}) :
       userJson \in {loadUserJson(S.json, session[1].name)}})

\* the email of the signed-in user, lower-cased: the session of
\* registerUser has the key email, the session of loginUser the keys of the
\* summary row
SessionEmail(session) ==
    toLowerCase(IF TextOr(session[1], "email") # Empty THEN session[1].email
                ELSE TextOr(session[1], "email_address"))

\* CareerFeed: the page is shown (toSave = "") or a career is saved, the
\* effect stores the saved set, and 500 ms later the timer runs the sync
CareerFeedSync ==
    /\ Counted
    /\ currentUser # << >>
    /\ \E toSave \in CareerIds \cup {""}, ok \in FetchOutcomes,
          r \in RandomDraws :
        \E nextSaved \in {IF toSave = "" THEN saved
                          ELSE AddSaved(saved, toSave)} :
        \E res \in {syncSavedToJson(Stores, getCurrentUser(currentUser, r),
                                    nextSaved, ok, ok, r)} :
           /\ Len(res.S.csv) <= MaxRows
           /\ Written(res.S)
           /\ saved' = nextSaved
           /\ savedBy' = IF toSave = "" THEN savedBy
                         ELSE savedBy \cup
                              {<<SessionEmail(currentUser),
                                 toSave>>}
           /\ ret' = [op |-> "syncSavedToJson", called |-> res.called,
                      saved |-> res.saved]
           /\ UNCHANGED <<timers, signedIn, pending, baseline, currentUser,
                          uploads, registered>>

-----------------------------------------------------------------------------
(* Direct calls of saveUserDataDual, as its callers and the console can    *)
(* make them.                                                              *)

\* calls of saveUserDataDual completed in one behaviour
MaxCalls == 3

FullLists ==
    [interests |-> <<"AI">>, skills |-> <<"Python">>,
     recommendations_saved |-> <<"se">>,
     recommendations_selected |-> Arr(<<"Software Engineer">>),
     recommendations_rejected |-> <<"ml">>]

EmptyLists ==
    [interests |-> << >>, skills |-> << >>,
     recommendations_saved |-> << >>,
     recommendations_selected |-> Arr(<< >>),
     recommendations_rejected |-> << >>]

\* a complete payload: all sixteen fields of the detail record
Payload(name, email, lists) ==
    [full_name |-> name, email_address |-> email,
     password |-> SignupPassword, gender |-> "female", country |-> "BD",
     year |-> "2001", education |-> "BSc", custom_interest |-> "",
     custom_skill |-> "", profile_picture |-> "Faces/01_female_2001.jpg.jpg",
     bio |-> "hi"] @@ lists

\* the payloads handed in: complete ones, and ones without a name or an
\* email (empty, or absent under both spellings of the key)
DualPayloads ==
    { Payload(NameAl, MailA, FullLists),
      Payload(NameAl, MailA, EmptyLists),
      Payload(NameAl2, MailA, EmptyLists),
      Payload(NameA_l, MailA, EmptyLists),
      Payload(NameBo, MailB, EmptyLists),
      Payload(Empty, MailA, EmptyLists),
      Payload(NameAl, Empty, FullLists),
      [name |-> NameAl, password |-> SignupPassword] }

\* the (oldName, oldImagePath) arguments handed in
DualOlds ==
    { <<Empty, "">>, <<NameAl, "">>, <<NameA_l, "Faces/u1.png">>,
      <<Empty, "Faces/u1.png">> }

\* one call saveUserDataDual(userData, oldName, oldImagePath); prev and
\* prevOld are the detail records held before the call under the payload's
\* name and under oldName
SaveUserDataDual ==
    /\ ops < MaxCalls
    /\ ops' = ops + 1
    /\ \E userData \in DualPayloads, old \in DualOlds,
          ok1 \in FetchOutcomes, ok2 \in FetchOutcomes, r \in RandomDraws :
        \E res \in {saveUserDataDual(Stores, userData, old[1], old[2],
                                     ok1, ok2, r)} :
           /\ Len(res.S.csv) <= MaxRows
           /\ Written(res.S)
           /\ ret' = [op |-> "saveUserDataDual", result |-> res.result,
                      payload |-> userData, oldName |-> old[1],
                      oldImagePath |-> old[2],
                      prev |-> loadUserJson(user_json, PayloadName(userData)),
                      prevOld |-> loadUserJson(user_json, old[1])]
           /\ UNCHANGED <<savedBy, timers, signedIn, pending, baseline,
                          currentUser, saved, uploads, registered>>

\* the (name, email) pairs handed to checkUserExists
Probes == { <<NameAl2, MailA2>>, <<NameBo, MailA2>>, <<NameAl2, MailB>> }

\* one call checkUserExists(name, email); ok1 and ok2 are the outcomes of
\* the fetches of its two lookups
CheckUserExists ==
    /\ ops < MaxCalls
    /\ ops' = ops + 1
    /\ \E probe \in Probes,
          ok1 \in FetchOutcomes, ok2 \in FetchOutcomes, r \in RandomDraws :
        \E c \in {checkUserExists(csv_users, probe[1], probe[2],
                                  ok1, ok2, r)} :
           /\ Len(c.cache) <= MaxRows
           /\ csv_users' = c.cache
           /\ ret' = [op |-> "checkUserExists", name |-> probe[1],
                      email |-> probe[2], ok1 |-> ok1, ok2 |-> ok2,
                      exists |-> c.exists, byName |-> c.byName,
                      byEmail |-> c.byEmail]
    /\ UNCHANGED <<savedBy, timers, signedIn, pending, baseline, user_json,
                   user_files, deleted_images, currentUser, saved, uploads,
                   registered>>

NextDual ==
    \/ SaveUserDataDual
    \/ ReadCSV
    \/ CheckUserExists

SpecDual == Init /\ [][NextDual]_vars

-----------------------------------------------------------------------------
(* The key-value store failing.  localStorage.setItem throws when the       *)
(* quota is exceeded, and JSON.parse throws on a value that is not JSON.    *)
(* The definitions above are the bodies of the try blocks when nothing      *)
(* throws; the definitions below add the throw sites and the catch          *)
(* handlers.  `full` is the set of keys whose setItem throws during the     *)
(* call; a result with threw = TRUE is an exception reaching the caller.    *)

\* a stored value that JSON.parse rejects, as the value of a detail
\* record's key and as the value of csv_users
UnparsableRecord == [unparsable |-> TRUE]
Unparsable == <<UnparsableRecord>>

StoreKeys == {"user_json", "user_files", "csv_users", "deleted_images"}

\* readCSV with its catch handler: an unparsable cache throws at line 208
\* (fetch succeeded) or in the handler at line 230, outside any try; a
\* setItem that throws at line 224 is caught and the cache is returned
TryReadCSV(cached, ok, full, r) ==
    IF cached = Unparsable
    THEN [threw |-> TRUE, users |-> << >>, cache |-> cached]
    ELSE IF ok /\ "csv_users" \in full
    THEN [threw |-> FALSE, users |-> cached, cache |-> cached]
    ELSE One({[threw |-> FALSE, users |-> rd.users, cache |-> rd.cache] :
              rd \in {readCSV(cached, ok, r)}})

\* findUserByEmail: it has no handler, a throw of readCSV passes through
TryFindUserByEmail(cached, email, ok, full, r) ==
    One({IF rd.threw
         THEN [threw |-> TRUE, user |-> << >>, cache |-> rd.cache]
         ELSE [threw |-> FALSE,
               user |-> One({IF i = 0 THEN << >> ELSE <<rd.users[i]>> :
                             i \in {EmailIndex(rd.users, email)}}),
               cache |-> rd.cache] :
         rd \in {TryReadCSV(cached, ok, full, r)}})

\* findUserByName: likewise
TryFindUserByName(cached, name, ok, full, r) ==
    One({IF rd.threw
         THEN [threw |-> TRUE, user |-> << >>, cache |-> rd.cache]
         ELSE [threw |-> FALSE,
               user |-> One({IF i = 0 THEN << >> ELSE <<rd.users[i]>> :
                             i \in {NameIndex(rd.users, name)}}),
               cache |-> rd.cache] :
         rd \in {TryReadCSV(cached, ok, full, r)}})

\* checkUserExists: it has no handler either
TryCheckUserExists(cached, name, email, ok1, ok2, full, r) ==
    One({IF byName.threw
         THEN [threw |-> TRUE, cache |-> byName.cache]
         ELSE One({IF byEmail.threw
                   THEN [threw |-> TRUE, cache |-> byEmail.cache]
                   ELSE [threw |-> FALSE,
                         exists |-> byName.user # << >>
                                    \/ byEmail.user # << >>,
                         byName |-> byName.user # << >>,
                         byEmail |-> byEmail.user # << >>,
                         cache |-> byEmail.cache] :
                   byEmail \in {TryFindUserByEmail(byName.cache, email,
                                                   ok2, full, r)}}) :
         byName \in {TryFindUserByName(cached, name, ok1, full, r)}})

\* loadUserJson with its catch handler: an unparsable record reads as null
TryLoadUserJson(json, name) ==
    One({IF fileName \in DOMAIN json /\ json[fileName] = UnparsableRecord
         THEN << >>
         ELSE loadUserJson(json, name) :
         fileName \in {getFileName(name)}})

\* fault variant of saveUserJson: its handler reports success
TrySaveUserJsonReportingSuccess(S, name, userData, oldName, full) ==
    LET renamed == oldName # Empty /\ oldName # name
        json1 == IF renamed THEN Remove(S.json, getFileName(oldName))
                 ELSE S.json
    IN IF full # {}
       THEN [saved |-> TRUE, S |-> [S EXCEPT !.json = json1]]
       ELSE saveUserJson(S, name, userData, oldName)

\* fault variant of TrySaveUserJson: the old key is removed only after the
\* new key has been written
TrySaveUserJsonRemovingLate(S, name, userData, oldName, full) ==
    IF "user_json" \in full THEN [saved |-> FALSE, S |-> S]
    ELSE IF "user_files" \in full
    THEN [saved |-> FALSE,
          S |-> [S EXCEPT !.json = With(S.json, getFileName(name), userData)]]
    ELSE saveUserJson(S, name, userData, oldName)

\* saveUserJson with its catch handler: the old key is removed before any
\* setItem, so a setItem that throws leaves what was done before it
TrySaveUserJson(S, name, userData, oldName, full) ==
    LET fileName == getFileName(name)
        renamed == oldName # Empty /\ oldName # name
        json1 == IF renamed THEN Remove(S.json, getFileName(oldName))
                 ELSE S.json
        files1 == IF renamed THEN Remove(S.files, oldName) ELSE S.files
    IN IF renamed /\ "user_files" \in full
       THEN [saved |-> FALSE, S |-> [S EXCEPT !.json = json1]]
       ELSE IF "user_json" \in full
       THEN [saved |-> FALSE,
             S |-> [S EXCEPT !.json = json1, !.files = files1]]
       ELSE IF "user_files" \in full
       THEN [saved |-> FALSE,
             S |-> [S EXCEPT !.json = With(json1, fileName, userData),
                             !.files = files1]]
       ELSE saveUserJson(S, name, userData, oldName)

\* fault variant of TryDeleteOldImage: the path is not recorded
TryDeleteOldImageForgetting(deletedImages, imagePath, full) == deletedImages

\* deleteOldImage with its catch handler
TryDeleteOldImage(deletedImages, imagePath, full) ==
    IF "deleted_images" \in full THEN deletedImages
    ELSE deleteOldImage(deletedImages, imagePath)

\* fault variant of TryUpdateCSVRow: the new data are merged into the old
\* row ({ ...users[userIndex], ...row }), so that the other fields of the
\* old row survive
TryUpdateCSVRowMerging(S, email, updatedData, oldImagePath, ok, full, r) ==
    One({IF rd.threw
         THEN [updated |-> FALSE, S |-> S]
         ELSE One({
            IF userIndex = 0
            THEN [updated |-> FALSE, S |-> [S EXCEPT !.csv = rd.cache]]
            ELSE One({
               IF "csv_users" \in full
               THEN [updated |-> FALSE,
                     S |-> [S EXCEPT !.del = del, !.csv = rd.cache]]
               ELSE [updated |-> TRUE,
                     S |-> [S EXCEPT
                              !.del = del,
                              !.csv = [rd.users EXCEPT
                                         ![userIndex] =
                                             SummaryRow(updatedData)
                                                @@ rd.users[userIndex]]]] :
               del \in {IF oldImagePath # ""
                           /\ oldImagePath # updatedData.profile_picture
                        THEN TryDeleteOldImage(S.del, oldImagePath, full)
                        ELSE S.del}}) :
            userIndex \in {EmailIndex(rd.users, email)}}) :
         rd \in {TryReadCSV(S.csv, ok, full, r)}})

\* updateCSVRow with its catch handler: a throw of readCSV or of the
\* setItem of csv_users makes it return false
TryUpdateCSVRow(S, email, updatedData, oldImagePath, ok, full, r) ==
    One({IF rd.threw
         THEN [updated |-> FALSE, S |-> S]
         ELSE One({
            IF userIndex = 0
            THEN [updated |-> FALSE, S |-> [S EXCEPT !.csv = rd.cache]]
            ELSE One({
               IF "csv_users" \in full
               THEN [updated |-> FALSE,
                     S |-> [S EXCEPT !.del = del, !.csv = rd.cache]]
               ELSE [updated |-> TRUE,
                     S |-> [S EXCEPT
                              !.del = del,
                              !.csv = [rd.users EXCEPT
                                         ![userIndex] =
                                             SummaryRow(updatedData)]]] :
               del \in {IF oldImagePath # ""
                           /\ oldImagePath # updatedData.profile_picture
                        THEN TryDeleteOldImage(S.del, oldImagePath, full)
                        ELSE S.del}}) :
            userIndex \in {EmailIndex(rd.users, email)}}) :
         rd \in {TryReadCSV(S.csv, ok, full, r)}})


\* fault variant of DualBegin: the summary row is written first and the
\* detail record is left for later
DualBeginWritingSummaryFirst(S, userData, oldName, full) ==
    IF PayloadName(userData) = Empty \/ PayloadEmail(userData) = Empty
    THEN [valid |-> FALSE, jsonSaved |-> FALSE, S |-> S]
    ELSE [valid |-> TRUE, jsonSaved |-> TRUE,
          S |-> [S EXCEPT !.csv = <<SummaryData(userData)>>]]

\* saveUserDataDual, lines 180-209: the check of the payload and the
\* write of the detail record
DualBegin(S, userData, oldName, full) ==
    IF PayloadName(userData) = Empty \/ PayloadEmail(userData) = Empty
    THEN [valid |-> FALSE, jsonSaved |-> FALSE, S |-> S]
    ELSE One({[valid |-> TRUE, jsonSaved |-> js.saved, S |-> js.S] :
              js \in {TrySaveUserJson(S, PayloadName(userData),
                                      DetailRecord(userData), oldName,
                                      full)}})

\* saveUserDataDual, lines 229-237: the row is overwritten by updateCSVRow
\* (whose result is not looked at) or appended; a throw of readCSV or of
\* the setItem of the append reaches the handler of saveUserDataDual
DualWrite(S, existing, email, csvData, oldImagePath, ok, full, r) ==
    IF existing
    THEN One({[threw |-> FALSE, written |-> u.updated, S |-> u.S] :
              u \in {TryUpdateCSVRow(S, email, csvData, oldImagePath,
                                     ok, full, r)}})
    ELSE One({IF rd.threw
              THEN [threw |-> TRUE, written |-> FALSE, S |-> S]
              ELSE IF "csv_users" \in full
              THEN [threw |-> TRUE, written |-> FALSE,
                    S |-> [S EXCEPT !.csv = rd.cache]]
              ELSE [threw |-> FALSE, written |-> TRUE,
                    S |-> [S EXCEPT !.csv = Append(rd.users, csvData)]] :
              rd \in {TryReadCSV(S.csv, ok, full, r)}})

\* calls begun in one behaviour of the failing store
MaxFaultCalls == 3

FaultPayloads ==
    { Payload(NameAl, MailA, FullLists),
      Payload(NameAl, MailA, EmptyLists),
      With(Payload(NameBo, MailB, EmptyLists),
           "profile_picture", "Faces/u1.png"),
      Payload(NameAl, Empty, FullLists) }

FaultOlds == { <<Empty, "">>, <<NameBo, "Faces/u1.png">> }

\* the sets of keys whose setItem throws during one call
FullSets ==
    { {}, {"user_json"}, {"csv_users"}, {"user_files"}, {"deleted_images"},
      StoreKeys }

Begun == pending = << >> /\ ops < MaxFaultCalls /\ ops' = ops + 1

\* the summary store holds the summary row of the payload
HasSummaryOf(rows, userData) ==
    \E i \in 1..Len(rows) : rows[i] = SummaryData(userData)

\* the detail store holds the detail record of the payload
HasDetailOf(json, userData) ==
    TryLoadUserJson(json, PayloadName(userData)) = <<DetailRecord(userData)>>

\* the record of a saveUserDataDual call that has returned
Returned(call, result, written) ==
    [op |-> "saveUserDataDual", threw |-> FALSE, result |-> result,
     written |-> written, payload |-> call.payload,
     oldName |-> call.oldName, full |-> call.full,
     jsonSaved |-> call.jsonSaved, stale |-> call.stale]

\* another script of the origin, or the user, leaves a value that is not
\* JSON under csv_users or under the key of a detail record
StoreCorrupted ==
    /\ Begun
    /\ \/ csv_users' = Unparsable /\ UNCHANGED user_json
       \/ /\ \E k \in DOMAIN user_json :
                user_json' = [user_json EXCEPT ![k] = UnparsableRecord]
          /\ UNCHANGED csv_users
    /\ ret' = [op |-> "none"]
    /\ UNCHANGED <<savedBy, timers, signedIn, pending, baseline, user_files,
                   deleted_images, currentUser, saved, uploads, registered>>

\* saveUserDataDual up to its first await: the payload is checked and
\* saveUserJson writes the detail record.  stale says that before the call
\* neither store held the payload, hadOld that a record was stored under
\* the old name.
SaveBegin ==
    /\ Begun
    /\ \E userData \in FaultPayloads, old \in FaultOlds, full \in FullSets :
        \E b \in {DualBegin(Stores, userData, old[1], full)} :
        LET call == [pc |-> "find", payload |-> userData, oldName |-> old[1],
                     oldImagePath |-> old[2], full |-> full,
                     jsonSaved |-> b.jsonSaved,
                     hadOld |-> TryLoadUserJson(user_json, old[1]) # << >>,
                     stale |-> /\ ~HasDetailOf(user_json, userData)
                               /\ ~HasSummaryOf(csv_users, userData)]
        IN /\ Written(b.S)
           /\ pending' = IF b.valid THEN <<call>> ELSE << >>
           /\ ret' = IF b.valid THEN [op |-> "none"]
                     ELSE Returned(call, FALSE, FALSE)
    /\ UNCHANGED <<savedBy, timers, signedIn, baseline, currentUser, saved,
                   uploads, registered>>

\* saveUserDataDual, line 227: findUserByEmail
SaveFind ==
    /\ pending # << >> /\ pending[1].pc = "find"
    /\ \E ok \in FetchOutcomes, r \in RandomDraws :
        \E f \in {TryFindUserByEmail(csv_users,
                                     PayloadEmail(pending[1].payload),
                                     ok, pending[1].full, r)} :
           /\ Len(f.cache) <= MaxRows
           /\ csv_users' = f.cache
           /\ pending' = IF f.threw THEN << >>
                         ELSE <<[pending[1] EXCEPT
                                   !.pc = IF f.user # << >> THEN "update"
                                          ELSE "append"]>>
           /\ ret' = IF f.threw THEN Returned(pending[1], FALSE, FALSE)
                     ELSE ret
    /\ UNCHANGED <<savedBy, timers, signedIn, baseline, user_json,
                   user_files, deleted_images, currentUser, saved, uploads,
                   registered, ops>>

\* saveUserDataDual, lines 229-239: the summary row is written and the
\* call returns jsonSaved, or false from its handler
SaveWrite ==
    /\ pending # << >> /\ pending[1].pc \in {"update", "append"}
    /\ \E ok \in FetchOutcomes, r \in RandomDraws :
        \E w \in {DualWrite(Stores, pending[1].pc = "update",
                            PayloadEmail(pending[1].payload),
                            SummaryData(pending[1].payload),
                            pending[1].oldImagePath, ok,
                            pending[1].full, r)} :
           /\ Len(w.S.csv) <= MaxRows
           /\ Written(w.S)
           /\ ret' = Returned(pending[1],
                              IF w.threw THEN FALSE
                              ELSE pending[1].jsonSaved, w.written)
    /\ pending' = << >>
    /\ UNCHANGED <<savedBy, timers, signedIn, baseline, currentUser, saved,
                   uploads, registered, ops>>

\* one call readCSV() with the store possibly failing
ReadStore ==
    /\ Begun
    /\ \E ok \in FetchOutcomes, full \in FullSets, r \in RandomDraws :
        \E rd \in {TryReadCSV(csv_users, ok, full, r)} :
           /\ Len(rd.cache) <= MaxRows
           /\ csv_users' = rd.cache
           /\ ret' = [op |-> "readCSV", threw |-> rd.threw, ok |-> ok,
                      users |-> rd.users]
    /\ UNCHANGED <<savedBy, timers, signedIn, pending, baseline, user_json,
                   user_files, deleted_images, currentUser, saved, uploads,
                   registered>>

\* one call loadUserJson(name)
LoadRecord ==
    /\ Begun
    /\ \E name \in {NameAl, NameBo} :
          ret' = [op |-> "loadUserJson", threw |-> FALSE, name |-> name,
                  value |-> TryLoadUserJson(user_json, name)]
    /\ UNCHANGED <<savedBy, timers, signedIn, pending, baseline, csv_users,
                   user_json, user_files, deleted_images, currentUser, saved,
                   uploads, registered>>

\* one call checkUserExists(name, email) with the store possibly failing
CheckExists ==
    /\ Begun
    /\ \E name \in {NameAl, NameBo}, email \in {MailA, MailB},
          ok \in FetchOutcomes, full \in FullSets, r \in RandomDraws :
        \E c \in {TryCheckUserExists(csv_users, name, email, ok, ok,
                                     full, r)} :
           /\ Len(c.cache) <= MaxRows
           /\ csv_users' = c.cache
           /\ ret' = [op |-> "checkUserExists", threw |-> c.threw]
    /\ UNCHANGED <<savedBy, timers, signedIn, pending, baseline, user_json,
                   user_files, deleted_images, currentUser, saved, uploads,
                   registered>>

NextFault ==
    \/ StoreCorrupted
    \/ SaveBegin
    \/ SaveFind
    \/ SaveWrite
    \/ ReadStore
    \/ LoadRecord
    \/ CheckExists

SpecFault == Init /\ [][NextFault]_vars

-----------------------------------------------------------------------------
Next ==
    \/ InitializeAdminUser
    \/ ReadCSV
    \/ RegisterUser
    \/ LoginUser
    \/ LogoutUser
    \/ ProfileSave
    \/ CareerFeedSync

Spec == Init /\ [][Next]_vars

-----------------------------------------------------------------------------
(* Properties of the summary store *)

\* the email of a summary row, under either spelling of the key
RowEmail(row) ==
    IF TextOr(row, "email") # Empty THEN row.email
    ELSE TextOr(row, "email_address")

\* the indices of the rows of `rows` whose email is `email`, ignoring case
RowsOf(rows, email) ==
    {i \in 1..Len(rows) : EmailMatches(rows[i], email)}

\* C1: after any sequence of completed operations, whether the loads of
\* the baseline succeed or fail, the summary store never holds two rows
\* whose email (email or email_address) is equal ignoring case.
C1_OneRowPerEmail ==
    \A i \in 1..Len(csv_users) :
        RowsOf(csv_users, RowEmail(csv_users[i])) = {i}

-----------------------------------------------------------------------------
(* Properties of registration and login *)

\* C8: after one successful registerUser for an email, every later
\* registerUser with the same email (ignoring case, with any name, the form
\* being well-formed) returns success false with exactly the error
\* "Account already exists. Please log in instead." and does not call
\* saveUserDataDual, whether the loads of the baseline succeed or fail.
C8_SecondSignupRejected ==
    (ret.op = "registerUser" /\ ret.known /\ ret.valid) =>
        /\ ret.success = FALSE
        /\ ret.error = ExistsError
        /\ ret.saveCalled = FALSE

\* C9: for a name and email not yet in the summary store, checkUserExists
\* returns exists false; after registerUser succeeds, findUserByEmail(email)
\* returns a row with that full_name, and a following loginUser with the
\* same email and password returns success with a session object whose
\* interests and skills are empty lists.
C9_SignupThenLogin ==
    /\ (ret.op = "registerUser" /\ ret.fresh) => ret.error # ExistsError
    /\ (ret.op = "registerUser" /\ ret.fresh /\ ret.success) =>
        \A ok \in FetchOutcomes, r \in RandomDraws :
            LET found == findUserByEmail(csv_users, ret.email, ok, r).user
                login == loginUser(csv_users, user_json, ret.email,
                                   ret.password, ok, r)
            IN /\ found # << >>
               /\ TextOr(found[1], "full_name") = ret.name
               /\ login.success
               /\ ListOr(login.user[1], "interests") = << >>
               /\ ListOr(login.user[1], "skills") = << >>
               /\ Has(login.user[1], "interests")
               /\ Has(login.user[1], "skills")

\* some row of `rows` has the email, ignoring case, and exactly the password
HasCredentials(rows, email, password) ==
    \E i \in 1..Len(rows) :
        /\ EmailMatches(rows[i], email)
        /\ Has(rows[i], "password")
        /\ rows[i].password = password

\* C10: loginUser(email, password) for a non-admin email succeeds if and
\* only if the summary store, as the login reads it, has a row whose email
\* matches ignoring case and whose password equals the given one; when it
\* fails the error is "Invalid email address or password".
C10_LoginIffCredentials ==
    [][(ret'.op = "loginUser" /\ toLowerCase(ret'.email) # MailAdmin)
       => /\ ret'.success
               <=> HasCredentials(readCSV(csv_users, ret'.ok, 0).users,
                                  ret'.email, ret'.password)
          /\ ret'.success = FALSE => ret'.error = LoginError]_vars

-----------------------------------------------------------------------------
(* Properties of saveUserDataDual *)

SaveReturned == ret.op = "saveUserDataDual"

AgreeFields ==
    {"full_name", "email_address", "password", "gender", "country", "year",
     "profile_picture", "bio"}

\* a summary row and a detail record hold the same user
RowAgrees(row, rec) ==
    /\ \A f \in AgreeFields : Has(row, f) /\ row[f] = rec[f]
    /\ Has(row, "recommendations_selected")
    /\ IsArray(rec.recommendations_selected)
    /\ row.recommendations_selected
           = JoinTitles(rec.recommendations_selected.arr)

\* C2: after saveUserDataDual(payload) returns true, findUserByEmail(payload
\* email) returns a row and loadUserJson(payload name) returns a record
\* that agree on full_name, email_address, password, gender, country, year,
\* profile_picture and bio, and the row's recommendations_selected is the
\* record's list joined with "; ".
C2_StoresAgree ==
    (SaveReturned /\ ret.result) =>
        \A ok \in FetchOutcomes, r \in RandomDraws :
            LET row == findUserByEmail(csv_users, PayloadEmail(ret.payload),
                                       ok, r).user
                rec == loadUserJson(user_json, PayloadName(ret.payload))
            IN row # << >> /\ rec # << >> /\ RowAgrees(row[1], rec[1])

\* the rows of `rows` held for `email`, in their order
RowSeq(rows, email) == SelectSeq(rows, LAMBDA u : EmailMatches(u, email))

\* the emails of `rows`, lower-cased
Emails(rows) == {toLowerCase(RowEmail(rows[i])) : i \in 1..Len(rows)}

\* C3: a second call of saveUserDataDual with the identical payload, both
\* without oldName and oldImagePath, leaves the same detail record and the
\* same summary row as the first, and the same number of summary rows (a
\* row of the baseline that a read brings into the local rows is not
\* counted).
C3_SecondCallIdempotent ==
    [][(/\ SaveReturned /\ ret.result
        /\ ret.oldName = Empty /\ ret.oldImagePath = ""
        /\ ret'.op = "saveUserDataDual" /\ ret'.result
        /\ ret'.oldName = Empty /\ ret'.oldImagePath = ""
        /\ ret'.payload = ret.payload)
       => /\ loadUserJson(user_json', PayloadName(ret.payload))
               = loadUserJson(user_json, PayloadName(ret.payload))
          /\ RowSeq(csv_users', PayloadEmail(ret.payload))
               = RowSeq(csv_users, PayloadEmail(ret.payload))
          /\ Emails(csv_users) \subseteq Emails(csv_users')
          /\ Emails(csv_users')
                \subseteq Emails(csv_users) \cup Emails(baseline)
          /\ Len(csv_users') <= Len(csv_users) + Len(baseline)]_vars

\* the call that returned was a rename: oldName given and not the new name
RenameReturned ==
    /\ SaveReturned /\ ret.result
    /\ ret.oldName # Empty
    /\ ret.oldName # PayloadName(ret.payload)

\* the detail record is gone under oldName and is the payload under the
\* new name
KeyMigrated ==
    /\ loadUserJson(user_json, ret.oldName) = << >>
    /\ loadUserJson(user_json, PayloadName(ret.payload)) = <<ret.payload>>

\* C4, as stated: for every pair of different names oldName and newName,
\* saveUserDataDual(payload with full_name = newName, oldName) results in
\* loadUserJson(oldName) = null and loadUserJson(newName) = payload.
C4_RenameMigratesKey == RenameReturned => KeyMigrated

\* C4, amended: the same for every pair of names whose derived keys
\* (getFileName) differ.
C4_RenameMigratesDistinctKey ==
    (RenameReturned
     /\ getFileName(ret.oldName) # getFileName(PayloadName(ret.payload)))
    => KeyMigrated

\* a rename between names of different keys has removed a record that was
\* held under oldName
C4_Witness ==
    /\ RenameReturned
    /\ getFileName(ret.oldName) # getFileName(PayloadName(ret.payload))
    /\ ret.prevOld # << >>
    /\ KeyMigrated

\* C5: a rename through saveUserDataDual(payload with a new full_name,
\* oldName) of a user who has a detail record under oldName and one
\* summary row keeps exactly one summary
\* row for the user's email, sets that row's full_name to the new name, and
\* neither removes nor adds a row of another email (a row of the baseline
\* that a read brings into the local rows is not counted as added).
C5_RenameKeepsRows ==
    [][(/\ ret'.op = "saveUserDataDual" /\ ret'.result
        /\ ret'.oldName # Empty
        /\ ret'.oldName # PayloadName(ret'.payload)
        /\ ret'.prevOld # << >>
        /\ Cardinality(RowsOf(csv_users, PayloadEmail(ret'.payload))) = 1)
       => LET email == PayloadEmail(ret'.payload)
              mine == RowsOf(csv_users', email)
          IN /\ Cardinality(mine) = 1
             /\ \A i \in mine : TextOr(csv_users'[i], "full_name")
                                     = PayloadName(ret'.payload)
             /\ Emails(csv_users) \subseteq Emails(csv_users')
             /\ Emails(csv_users')
                   \subseteq Emails(csv_users) \cup Emails(baseline)
             /\ Len(csv_users') <= Len(csv_users) + Len(baseline)]_vars

ListFields ==
    {"interests", "skills", "recommendations_saved",
     "recommendations_selected", "recommendations_rejected"}

\* C6: saveUserDataDual never merges with the stored detail record: for
\* every list field, if the payload supplies an empty list while the stored
\* record held a non-empty one, loadUserJson afterwards returns the empty
\* list for that field.
C6_NoMerge ==
    (SaveReturned /\ ret.result /\ ret.prev # << >>) =>
        \A f \in ListFields :
            (/\ ret.prev[1][f] # NoItems(f)
             /\ Has(ret.payload, f)
             /\ ret.payload[f] = NoItems(f))
            => LET rec == loadUserJson(user_json, PayloadName(ret.payload))
               IN rec # << >> /\ rec[1][f] = NoItems(f)

\* a payload with empty lists has replaced a record whose five lists were
\* all non-empty
C6_Witness ==
    /\ SaveReturned /\ ret.result /\ ret.prev # << >>
    /\ \A f \in ListFields :
          /\ ret.prev[1][f] # NoItems(f)
          /\ ret.payload[f] = NoItems(f)
          /\ loadUserJson(user_json, PayloadName(ret.payload))[1][f]
                = NoItems(f)

\* C7: saveUserDataDual called with a payload whose name or email is empty
\* returns false and modifies neither the detail store, the summary store
\* nor the deletion-tracking list.
C7_InvalidPayloadWritesNothing ==
    [][(/\ ret'.op = "saveUserDataDual"
        /\ \/ PayloadName(ret'.payload) = Empty
           \/ PayloadEmail(ret'.payload) = Empty)
       => /\ ret'.result = FALSE
          /\ UNCHANGED <<user_json, user_files, csv_users,
                         deleted_images>>]_vars

\* a call without a name or without an email has returned false with
\* both stores already holding data
C7_Witness ==
    /\ SaveReturned
    /\ \/ PayloadName(ret.payload) = Empty
       \/ PayloadEmail(ret.payload) = Empty
    /\ ret.result = FALSE
    /\ csv_users # << >>
    /\ user_json # << >>

-----------------------------------------------------------------------------
(* Properties of readCSV *)

\* C11: when the load of the baseline fails, readCSV returns exactly the
\* rows held locally under csv_users, in the same order, and leaves
\* csv_users unchanged.
C11_FailedLoadReturnsLocal ==
    [][(ret'.op = "readCSV" /\ ~ret'.ok)
       => /\ ret'.users = csv_users
          /\ csv_users' = csv_users]_vars

\* a read whose load failed has returned two or more local rows
C11_Witness ==
    /\ ret.op = "readCSV" /\ ~ret.ok
    /\ Len(ret.users) >= 2
    /\ ret.users = csv_users

\* the row `got` is the row `row`, possibly with an avatar added
SameRow(got, row) ==
    \A f \in DOMAIN row : Has(got, f) /\ got[f] = row[f]

\* C12: when the load of the baseline succeeds, readCSV returns the rows of
\* the baseline first, in their order, and behind them every locally held
\* row whose email is not the email of a row of the baseline; none of these
\* local rows is missing from the result or from the rewritten csv_users,
\* whether it is in the legacy or in the new format.
C12_MergeKeepsLocalRows ==
    [][(ret'.op = "readCSV" /\ ret'.ok)
       => /\ Len(ret'.users) >= Len(baseline)
          /\ \A i \in 1..Len(baseline) : SameRow(ret'.users[i], baseline[i])
          /\ \A j \in 1..Len(csv_users) :
                toLowerCase(RowEmail(csv_users[j])) \notin Emails(baseline)
                => /\ \E k \in (Len(baseline) + 1)..Len(ret'.users) :
                          SameRow(ret'.users[k], csv_users[j])
                   /\ \E k \in 1..Len(csv_users') :
                          SameRow(csv_users'[k], csv_users[j])]_vars

\* saveUserDataDual has returned true for a user of the baseline and the
\* local rows hold the summary row of its payload
BaselineUserSaved ==
    /\ SaveReturned /\ ret.result
    /\ toLowerCase(PayloadEmail(ret.payload)) \in Emails(baseline)
    /\ \E i \in 1..Len(csv_users) : csv_users[i] = SummaryData(ret.payload)

\* C13: after saveUserDataDual has overwritten the summary row of a user
\* who is also in the baseline, a later findUserByEmail with the load of
\* the baseline succeeding returns the locally updated values of that
\* user, not the values of the baseline.
C13_LocalUpdateWins ==
    BaselineUserSaved =>
        \A r \in RandomDraws :
            LET found == findUserByEmail(csv_users,
                                         PayloadEmail(ret.payload), TRUE, r)
            IN /\ found.user # << >>
               /\ SameRow(found.user[1], SummaryData(ret.payload))

\* C14: once a user has a summary row, every later readCSV still returns a
\* row for that email: no operation (a registration, a sync, a rename, a
\* read with the load of the baseline succeeding or failing) removes the
\* row of a user from the summary store.
C14_RowsAreNeverRemoved ==
    [][Emails(csv_users) \subseteq Emails(csv_users')]_vars

-----------------------------------------------------------------------------
(* Properties of the failing store *)

DualReturned == pending = << >> /\ ret.op = "saveUserDataDual"

\* C15: saveUserDataDual returns true only if saveUserJson wrote the
\* detail record; whenever the write of the detail record fails,
\* saveUserDataDual returns false.
C15_TrueOnlyIfDetailWritten ==
    DualReturned =>
        /\ ret.result => /\ ret.jsonSaved
                         /\ HasDetailOf(user_json, ret.payload)
        /\ "user_json" \in ret.full => ~ret.result
        /\ ~ret.jsonSaved => ~ret.result

\* the write of the detail record has failed, the summary row has been
\* written, and the call has returned false
C15_Witness ==
    /\ DualReturned
    /\ "user_json" \in ret.full
    /\ ~ret.jsonSaved
    /\ ret.written
    /\ ~ret.result

\* C16: saveUserDataDual returns true only if both the detail record and
\* the summary row were saved: whenever the update or the append of the
\* summary row does not take place (updateCSVRow returns false or the
\* write throws), saveUserDataDual returns false.
C16_TrueOnlyIfBothSaved ==
    DualReturned =>
        /\ ret.result => ret.jsonSaved /\ ret.written
        /\ ~ret.written => ~ret.result

\* a call of saveUserDataDual is in progress or has just returned
InCall == pending # << >> \/ ret.op = "saveUserDataDual"

\* that call
CallNow == IF pending # << >> THEN pending[1] ELSE ret

\* the summary store carries the payload of the call while the detail store
\* does not
SummaryAhead ==
    /\ HasSummaryOf(csv_users, CallNow.payload)
    /\ ~HasDetailOf(user_json, CallNow.payload)

C18_NoExceptionReachesCaller ==
    ret.op \in {"readCSV", "checkUserExists", "loadUserJson",
                "saveUserDataDual"}
    => ~ret.threw

-----------------------------------------------------------------------------
(* Properties of checkUserExists *)

ProbeReturned == ret.op = "checkUserExists"

\* C19, as stated: checkUserExists is a read-only probe: a call leaves the
\* summary store (csv_users), every detail record and the session exactly
\* as they were, whether the load of the baseline succeeds or fails.
C19_ProbeIsReadOnly ==
    [][ret'.op = "checkUserExists"
       => UNCHANGED <<csv_users, user_json, currentUser>>]_vars

\* C19, amended: a call leaves every detail record, the name map, the
\* deletion list and the session as they were; it leaves csv_users as it
\* was when both loads of the baseline fail, and otherwise csv_users
\* starts with the rows of the baseline.
C19_ProbeWritesOnlyTheCache ==
    [][ret'.op = "checkUserExists"
       => /\ UNCHANGED <<user_json, user_files, deleted_images, currentUser>>
          /\ (~ret'.ok1 /\ ~ret'.ok2) => csv_users' = csv_users
          /\ (ret'.ok1 \/ ret'.ok2) =>
                /\ Len(csv_users') >= Len(baseline)
                /\ \A i \in 1..Len(baseline) :
                      SameRow(csv_users'[i], baseline[i])]_vars

\* a probe whose loads failed has returned with both stores holding data
C19_Witness ==
    /\ ProbeReturned /\ ~ret.ok1 /\ ~ret.ok2
    /\ csv_users # << >>
    /\ user_json # << >>
    /\ ret.exists

\* the field f of the row is the text, ignoring case
FieldIs(row, f, text) ==
    f \in DOMAIN row /\ toLowerCase(row[f]) = toLowerCase(text)

-----------------------------------------------------------------------------
(* Properties of initializeAdminUser *)

AdminInitialized == ret.op = "initializeAdminUser"

\* C23: initializeAdminUser adds the admin row only when no row with the
\* email 'admin' exists and writes no detail record: after any number of
\* calls (other operations in between included) the summary store holds
\* exactly one admin row, and the call has changed neither a user_json_*
\* key nor user_files (nor the session).
C23_OneAdminRowAndNoDetail ==
    [][(ops' # ops /\ ret'.op = "initializeAdminUser") =>
          /\ Cardinality(RowsOf(csv_users', MailAdmin)) = 1
          /\ user_json' = user_json
          /\ user_files' = user_files
          /\ deleted_images' = deleted_images]_vars

\* initializeAdminUser has returned after other operations wrote rows and
\* detail records, and the store holds one admin row
C23_Witness ==
    /\ AdminInitialized
    /\ ops > 2
    /\ Cardinality(RowsOf(csv_users, MailAdmin)) = 1
    /\ Len(csv_users) > 1
    /\ user_json # << >>


-----------------------------------------------------------------------------
(* Properties of deleted_images *)

\* the call in progress was handed an old image path that differs from the
\* profile_picture of its payload
ImageReplaced(call) ==
    /\ call.oldImagePath # ""
    /\ call.oldImagePath # SummaryData(call.payload).profile_picture

\* C24: when saveUserDataDual updates the summary row of an existing user
\* with an oldImagePath that differs from the payload's profile_picture
\* (the store accepting the write of deleted_images), oldImagePath is in
\* deleted_images afterwards; when oldImagePath is absent or equal to the
\* new profile_picture, or the user has no existing row, and in every
\* other step, deleted_images is unchanged.
C24_OldImageRecorded ==
    [][/\ (/\ pending # << >> /\ pending' = << >>
           /\ pending[1].pc = "update" /\ ret'.written
           /\ ImageReplaced(pending[1])
           /\ "deleted_images" \notin pending[1].full)
          => \E i \in 1..Len(deleted_images') :
                 deleted_images'[i] = pending[1].oldImagePath
       /\ (\/ pending = << >>
           \/ pending[1].pc # "update"
           \/ ~ImageReplaced(pending[1]))
          => deleted_images' = deleted_images]_vars

\* an update of an existing row has recorded the old image
C24_Witness ==
    /\ DualReturned /\ ret.written /\ ret.result
    /\ ret.full = {}
    /\ deleted_images = <<"Faces/u1.png">>
    /\ RowsOf(csv_users, PayloadEmail(ret.payload)) # {}


-----------------------------------------------------------------------------
(* Properties of saveUserJson *)

\* the call that has just begun renames the user
RenameBegun(call) == call.oldName # Empty /\ call.oldName # PayloadName(call.payload)

\* C25: in saveUserJson with a previousName that differs from the name, the
\* old key is removed before the new key is written: when the write of the
\* new key fails, saveUserJson returns false, the old record is gone (it is
\* not restored) and the new key has not been written.
C25_OldKeyGoneWhenWriteFails ==
    [][(/\ pending = << >> /\ pending' # << >>
        /\ RenameBegun(pending'[1])
        /\ "user_json" \in pending'[1].full)
       => /\ ~pending'[1].jsonSaved
          /\ TryLoadUserJson(user_json', pending'[1].oldName) = << >>
          /\ getFileName(pending'[1].oldName) \notin DOMAIN user_json'
          /\ user_json'
                = Remove(user_json, getFileName(pending'[1].oldName))]_vars

\* a record was stored under the old name, the write of the new key has
\* failed, and neither the old nor the new record is stored
C25_Witness ==
    /\ pending # << >>
    /\ RenameBegun(pending[1])
    /\ pending[1].hadOld
    /\ "user_json" \in pending[1].full
    /\ ~pending[1].jsonSaved
    /\ TryLoadUserJson(user_json, pending[1].oldName) = << >>
    /\ TryLoadUserJson(user_json, PayloadName(pending[1].payload)) = << >>


-----------------------------------------------------------------------------
(* getFileName applied to names over a small alphabet: an upper-case       *)
(* letter, a lower-case letter and the blank.                              *)

KeyChars == {"A", "a", " "}

\* length of the longest name
MaxKeyLen == 4

\* names whose key is derived in one behaviour
MaxKeyCalls == 2

KeyNames == UNION {[1..n -> KeyChars] : n \in 1..MaxKeyLen}

InitKey == Init /\ baseline = << >>

\* getFileName(name); earlier is the call before it
DeriveKey ==
    /\ ops < MaxKeyCalls
    /\ ops' = ops + 1
    /\ \E name \in KeyNames :
          ret' = [op |-> "getFileName", name |-> name,
                  key |-> getFileName(name),
                  earlier |-> IF ret.op = "getFileName"
                              THEN <<[name |-> ret.name, key |-> ret.key]>>
                              ELSE << >>]
    /\ UNCHANGED <<savedBy, timers, signedIn, pending, baseline, csv_users,
                   user_json, user_files, deleted_images, currentUser, saved,
                   uploads, registered>>

NextKey == DeriveKey

SpecKey == InitKey /\ [][NextKey]_vars

-----------------------------------------------------------------------------
(* Properties of getFileName *)

\* every run of blanks of the name made one blank
RECURSIVE SqueezeBlanks(_)
SqueezeBlanks(s) ==
    IF s = << >> THEN << >>
    ELSE IF IsWhitespace(Head(s)) /\ Len(s) > 1 /\ IsWhitespace(s[2])
    THEN SqueezeBlanks(Tail(s))
    ELSE <<Head(s)>> \o SqueezeBlanks(Tail(s))

\* the name begins and ends with a word
IsWords(s) == ~IsWhitespace(s[1]) /\ ~IsWhitespace(s[Len(s)])

\* the two names differ at most in letter case and in the amount of
\* whitespace between their words
SameUpToCaseAndBlanks(a, b) ==
    /\ IsWords(a) /\ IsWords(b)
    /\ toLowerCase(SqueezeBlanks(a)) = toLowerCase(SqueezeBlanks(b))

\* C26: the key of the detail record is a pure function of the name that
\* lowercases it, strips every character outside [a-zA-Z0-9] and collapses
\* whitespace: the same name always derives the same key, and two names
\* that differ only in letter case or in the amount of whitespace between
\* words derive the same key.
C26_SameKeyUpToCaseAndBlanks ==
    (ret.op = "getFileName" /\ ret.earlier # << >>) =>
        /\ ret.key = getFileName(ret.name)
        /\ ret.earlier[1].name = ret.name => ret.earlier[1].key = ret.key
        /\ SameUpToCaseAndBlanks(ret.earlier[1].name, ret.name)
              => ret.earlier[1].key = ret.key


-----------------------------------------------------------------------------
(* Properties of colliding keys *)

\* the detail store holds, under the key of `name`, the record of another
\* display name
KeyTakenByOther(json, name) ==
    /\ getFileName(name) \in DOMAIN json
    /\ json[getFileName(name)].full_name # name

\* C27: when two distinct display names derive the same key, the collision
\* is neither detected nor reported: the registration of the second user
\* (whose name and email no row holds) calls saveUserDataDual, which returns
\* true, and the first user's detail record is silently replaced, so that
\* loadUserJson(first name) returns the second user's data.
C27_CollisionReplacesSilently ==
    [][(/\ ops' # ops /\ ret'.op = "registerUser"
        /\ ret'.valid /\ ret'.fresh
        /\ KeyTakenByOther(user_json, ret'.name))
       => \A first \in {user_json[getFileName(ret'.name)].full_name} :
          \A loaded \in {loadUserJson(user_json', first)} :
             /\ ret'.saveCalled
             /\ ret'.success
             /\ ret'.error = ""
             /\ loaded # << >>
             /\ loaded[1].full_name = ret'.name
             /\ loaded[1].email_address = ret'.email
             /\ loaded[1].full_name # first]_vars

\* a second user has registered under a name whose key the first user's
\* record held: two rows of different emails, one detail record
C27_Witness ==
    /\ ret.op = "registerUser" /\ ret.success
    /\ ret.name = NameAdl
    /\ \E i \in 1..Len(csv_users) :
          /\ TextOr(csv_users[i], "full_name") = NameA_l
          /\ ~EmailMatches(csv_users[i], ret.email)
    /\ \E i \in 1..Len(csv_users) :
          /\ TextOr(csv_users[i], "full_name") = NameAdl
          /\ EmailMatches(csv_users[i], ret.email)
    /\ loadUserJson(user_json, NameA_l) # << >>
    /\ loadUserJson(user_json, NameA_l)[1].full_name = NameAdl
    /\ DOMAIN user_json = {getFileName(NameAdl)}


-----------------------------------------------------------------------------
(* Properties of the profile save *)

\* loginUser(email, password) would succeed on these stores, whether the
\* load of the baseline succeeds or fails
CanLogin(rows, json, email, password) ==
    \A ok \in FetchOutcomes :
        loginUser(rows, json, email, password, ok, 0).success

\* C30: a profile save never changes the stored password: when a
\* registered user who can log in with the registration password saves a
\* profile edit (handleSave) and logs out, loginUser with the same email
\* and the registration password still succeeds.
C30_ProfileSaveKeepsPassword ==
    [][(/\ ops' # ops /\ ret'.op = "handleSave" /\ ret'.saved
        /\ toLowerCase(TextOr(currentUser[1], "email")) \in registered
        /\ CanLogin(csv_users, user_json, currentUser[1].email,
                    SignupPassword))
       => CanLogin(csv_users', user_json', currentUser[1].email,
                   SignupPassword)]_vars


-----------------------------------------------------------------------------
(* Operations in flight together.  A call of saveUserDataDual gives way to *)
(* other work where it waits for data/d.csv: after the detail record is    *)
(* written (before findUserByEmail reads the summary store) and after      *)
(* findUserByEmail has returned (before the row is written).  Here         *)
(* data/d.csv has no rows, so that the merge of readCSV changes nothing.   *)

\* calls of saveUserDataDual in progress at the same time
MaxInFlight == 2

\* the signup forms submitted: (name, email)
AsyncForms == { <<NameAl, MailA>>, <<NameAdl, MailB>> }

\* what the user does to the loaded form before saving
AsyncEdits == {"none", "skill"}

InitAsync == Init /\ baseline = << >>

\* what a call in progress shows of itself to the calls it overlaps
Brief(call) == [origin |-> call.origin, payload |-> call.payload]

\* the calls in progress once `call` has begun: it and the calls already
\* in progress record that they overlap
Launched(call) ==
    Append([i \in 1..Len(pending) |->
                [pending[i] EXCEPT !.over = <<Brief(call)>>]],
           [call EXCEPT !.over = IF pending = << >> THEN << >>
                                 ELSE <<Brief(pending[Len(pending)])>>])

\* s without its i-th element
Drop(s, i) == SubSeq(s, 1, i - 1) \o SubSeq(s, i + 1, Len(s))

\* a call of saveUserDataDual that has passed its first await
InFlight(origin, userData, oldName, oldImagePath, jsonSaved, session) ==
    [origin |-> origin, pc |-> "find", payload |-> userData,
     oldName |-> oldName, oldImagePath |-> oldImagePath,
     jsonSaved |-> jsonSaved, session |-> session, over |-> << >>]

\* SignupPage: registerUser up to the first await of its saveUserDataDual
SignupBegin ==
    /\ Counted
    /\ Len(pending) < MaxInFlight
    /\ \E form \in AsyncForms, ok \in FetchOutcomes, r \in RandomDraws :
        /\ RegisterValidation(form[1], form[2], SignupPassword,
                              SignupPassword, "female", "2001", "BD") = ""
        /\ \E userExists \in {checkUserExists(csv_users, form[1], form[2],
                                              ok, ok, r)} :
           \E avatarFile \in {getRandomAvatarFile("female", r)} :
           \E userData \in {RegisterPayload(form[1], form[2], SignupPassword,
                                            "female", "2001", "BD",
                                            avatarFile)} :
           \E b \in {DualBegin([Stores EXCEPT !.csv = userExists.cache],
                               userData, Empty, {})} :
           \E session \in {withAvatarMetadata(
                               [email |-> form[2], name |-> form[1],
                                gender |-> "female", year |-> "2001",
                                country |-> "BD", avatar |-> avatarFile],
                               r)} :
              /\ Len(userExists.cache) <= MaxRows
              /\ IF userExists.exists
                 THEN /\ csv_users' = userExists.cache
                      /\ ret' = [op |-> "registerUser", success |-> FALSE,
                                 error |-> ExistsError]
                      /\ UNCHANGED <<user_json, user_files, deleted_images,
                                     pending>>
                 ELSE /\ Written(b.S)
                      /\ pending' = Launched(InFlight("signup", userData,
                                                      Empty, "", b.jsonSaved,
                                                      <<session>>))
                      /\ ret' = [op |-> "none"]
    /\ UNCHANGED <<savedBy, timers, signedIn, baseline, currentUser, saved,
                   uploads, registered>>

\* handleSave up to its await: the payload, the old name and image path
\* handed to saveUserDataDual, and the session to be stored afterwards
handleSaveCall(cu, page) ==
    [userData |-> ProfilePayload(page.form, cu),
     oldName |-> IF page.originalName # Empty
                    /\ page.originalName # page.form.name
                 THEN page.originalName ELSE Empty,
     oldImagePath |-> IF page.originalImagePath # ""
                         /\ page.originalImagePath # page.form.profilePicture
                      THEN page.originalImagePath ELSE "",
     updatedUser |-> With(With(cu, "name", page.form.name),
                          "avatar", StripFaces(page.form.profilePicture))]

\* ProfileQuizPage: the page is opened, the form edited and Save clicked;
\* handleSave runs up to the first await of its saveUserDataDual
ProfileSaveBegin ==
    /\ Counted
    /\ Len(pending) < MaxInFlight
    /\ currentUser # << >>
    /\ \E edit \in AsyncEdits, r \in RandomDraws :
        \E cu \in {getCurrentUser(currentUser, r)} :
        \E page \in {LoadedProfile(cu[1], user_json)} :
        \E hs \in {handleSaveCall(cu[1],
                                  [page EXCEPT !.form =
                                       EditedForm(page.form, edit, uploads)])} :
        \E b \in {DualBegin(Stores, hs.userData, hs.oldName, {})} :
           /\ TextOr(cu[1], "email") # Empty
           /\ Written(b.S)
           /\ pending' = IF b.valid
                         THEN Launched(InFlight("profile", hs.userData,
                                                hs.oldName, hs.oldImagePath,
                                                b.jsonSaved,
                                                <<hs.updatedUser>>))
                         ELSE pending
           /\ ret' = IF b.valid THEN [op |-> "none"]
                     ELSE [op |-> "handleSave", called |-> TRUE,
                           saved |-> FALSE]
    /\ UNCHANGED <<savedBy, timers, signedIn, baseline, currentUser, saved,
                   uploads, registered>>

\* the effect of CareerFeed without its cleanup: the timeout set by the
\* previous run stays
FeedEffectWithoutCleanup(pendingTimers, savedIds) ==
    Append(pendingTimers, [saved |-> savedIds])

\* the effect of CareerFeed for the saved set savedIds: the cleanup of the
\* previous run clears its timeout, and a timeout for syncSavedToJson,
\* which closes over savedIds, is set
FeedEffect(pendingTimers, savedIds) ==
    Append(IF pendingTimers = << >> THEN << >>
           ELSE SubSeq(pendingTimers, 1, Len(pendingTimers) - 1),
           [saved |-> savedIds])

\* CareerFeed: the page is shown (toSave = "") or Save is clicked on a
\* career; the effect runs
FeedChange ==
    /\ Counted
    /\ currentUser # << >>
    /\ \E toSave \in CareerIds \cup {""} :
        \E nextSaved \in {IF toSave = "" THEN saved
                          ELSE AddSaved(saved, toSave)} :
           /\ saved' = nextSaved
           /\ timers' = FeedEffect(timers, nextSaved)
           /\ savedBy' = IF toSave = "" THEN savedBy
                         ELSE savedBy \cup
                              {<<SessionEmail(currentUser),
                                 toSave>>}
           /\ ret' = [op |-> "setSaved", toSave |-> toSave]
    /\ UNCHANGED <<signedIn, pending, baseline, csv_users, user_json,
                   user_files, deleted_images, currentUser, uploads,
                   registered>>

\* syncSavedToJson up to its saveUserDataDual: << >> when there is no
\* session name or no detail record, <<updatedData>> otherwise
FeedPayload(json, session, savedIds) ==
    IF session = << >> \/ TextOr(session[1], "name") = Empty THEN << >>
    ELSE One({IF userJson = << >> THEN << >>
              ELSE <<[userJson[1] EXCEPT
                        !.recommendations_selected =
                            Arr(SavedTitles(savedIds)),
                        !.recommendations_saved = savedIds]>> :
              userJson \in {loadUserJson(json, session[1].name)}})

\* a timeout of CareerFeed runs: syncSavedToJson up to the first await of
\* its saveUserDataDual
TimerFires ==
    /\ Counted
    /\ Len(pending) < MaxInFlight
    /\ \E i \in 1..Len(timers), r \in RandomDraws :
        \E updatedData \in {FeedPayload(user_json,
                                        getCurrentUser(currentUser, r),
                                        timers[i].saved)} :
           /\ timers' = Drop(timers, i)
           /\ IF updatedData = << >>
              THEN /\ ret' = [op |-> "syncSavedToJson", called |-> FALSE,
                              carried |-> timers[i].saved]
                   /\ UNCHANGED <<csv_users, user_json, user_files,
                                  deleted_images, pending>>
              ELSE \E b \in {DualBegin(Stores, updatedData[1], Empty, {})} :
                      /\ Written(b.S)
                      /\ pending' = IF b.valid
                                    THEN Launched(InFlight("feed",
                                                           updatedData[1],
                                                           Empty, "",
                                                           b.jsonSaved,
                                                           << >>))
                                    ELSE pending
                      /\ ret' = [op |-> "syncSavedToJson", called |-> TRUE,
                                 carried |-> timers[i].saved]
    /\ UNCHANGED <<savedBy, signedIn, baseline, currentUser, saved, uploads,
                   registered>>

\* saveUserDataDual, line 227, of a call in progress: findUserByEmail
AsyncFind ==
    /\ \E i \in 1..Len(pending), ok \in FetchOutcomes, r \in RandomDraws :
        /\ pending[i].pc = "find"
        /\ \E f \in {findUserByEmail(csv_users,
                                     PayloadEmail(pending[i].payload),
                                     ok, r)} :
              /\ Len(f.cache) <= MaxRows
              /\ csv_users' = f.cache
              /\ pending' = [pending EXCEPT
                               ![i].pc = IF f.user # << >> THEN "update"
                                         ELSE "append"]
    /\ UNCHANGED <<savedBy, timers, signedIn, baseline, user_json,
                   user_files, deleted_images, currentUser, saved, uploads,
                   registered, ops, ret>>

\* saveUserDataDual, lines 229-239, of a call in progress: the summary row
\* is written and the call returns; registerUser and handleSave then store
\* the session
AsyncWrite ==
    /\ \E i \in 1..Len(pending), ok \in FetchOutcomes, r \in RandomDraws :
        /\ pending[i].pc \in {"update", "append"}
        /\ \E call \in {pending[i]} :
           \E w \in {DualWrite(Stores, call.pc = "update",
                               PayloadEmail(call.payload),
                               SummaryData(call.payload),
                               call.oldImagePath, ok, {}, r)} :
           \E result \in {IF w.threw THEN FALSE ELSE call.jsonSaved} :
              /\ Len(w.S.csv) <= MaxRows
              /\ Written(w.S)
              /\ pending' = Drop(pending, i)
              /\ currentUser' = IF result /\ call.session # << >>
                                THEN call.session ELSE currentUser
              /\ signedIn' = ((result /\ call.origin = "signup")
                              \/ signedIn)
              /\ registered' = IF result /\ call.origin = "signup"
                               THEN registered \cup
                                    {toLowerCase(PayloadEmail(call.payload))}
                               ELSE registered
              /\ ret' = [op |-> "saveUserDataDual", origin |-> call.origin,
                         result |-> result, written |-> w.written,
                         payload |-> call.payload, over |-> call.over]
    /\ UNCHANGED <<savedBy, timers, baseline, saved, uploads, ops>>

NextAsync ==
    \/ SignupBegin
    \/ LoginUser
    \/ LogoutUser
    \/ ProfileSaveBegin
    \/ FeedChange
    \/ TimerFires
    \/ AsyncFind
    \/ AsyncWrite

SpecAsync == InitAsync /\ [][NextAsync]_vars


-----------------------------------------------------------------------------
(* Properties of the session *)

\* C21: the session object exists exactly in the states reached after a
\* successful loginUser or registerUser with no logoutUser since: a failed
\* login or registration neither creates nor removes it, and after
\* logoutUser getCurrentUser returns null until the next successful login
\* or registration, even if another operation (a profile save) was still
\* in flight at the logout.
C21_SessionIffSignedIn ==
    (getCurrentUser(currentUser, 0) # << >>) <=> signedIn


-----------------------------------------------------------------------------
(* Properties of the career feed *)

\* the calls in progress that syncSavedToJson has made
FeedCalls(calls) == {i \in 1..Len(calls) : calls[i].origin = "feed"}

\* the session has a name under which a detail record is stored
HasDetailRecord ==
    /\ currentUser # << >>
    /\ TextOr(currentUser[1], "name") # Empty
    /\ loadUserJson(user_json, currentUser[1].name) # << >>

-----------------------------------------------------------------------------
(* Properties of operations in flight together *)

\* every call has returned, and the last one to return was in flight
\* together with another one
OverlapDone ==
    /\ pending = << >>
    /\ ret.op = "saveUserDataDual"
    /\ ret.over # << >>

\* C28: when two operations that each read the summary list and write it
\* back (saveUserDataDual appending or updating) are in flight together and
\* interleave at their awaits, csv_users after both have completed contains
\* the effect of both: the row of each payload is there, and no email
\* appears twice.
C28_BothEffectsKept ==
    OverlapDone =>
        /\ \A userData \in {ret.payload, ret.over[1].payload} :
              Cardinality(RowsOf(csv_users, PayloadEmail(userData))) = 1
        /\ C1_OneRowPerEmail


\* the call that returned last and the call it overlapped are a feed sync
\* and a profile save of the same user
SyncAndSave(a, b) ==
    /\ a.origin = "feed" /\ b.origin = "profile"
    /\ PayloadName(a.payload) = PayloadName(b.payload)

\* C29: if a recommendation sync whose timer has already fired (its
\* saveUserDataDual in flight) overlaps a profile save for the same user,
\* then once both have completed the detail record holds the most recent
\* saved set and the most recent profile edit: no payload built from an
\* older read overwrites a newer write.
C29_NewestWritesSurvive ==
    OverlapDone =>
        \A a \in {Brief(ret), ret.over[1]} :
        \A b \in {Brief(ret), ret.over[1]} :
            SyncAndSave(a, b) =>
                \A rec \in {loadUserJson(user_json,
                                         PayloadName(a.payload))} :
                    /\ rec # << >>
                    /\ rec[1].recommendations_saved
                          = a.payload.recommendations_saved
                    /\ rec[1].skills = b.payload.skills


-----------------------------------------------------------------------------
(* Properties of the recommendation lists *)

RecommendationLists ==
    {"recommendations_saved", "recommendations_selected",
     "recommendations_rejected"}

\* C31: a profile save (handleSave that has saved) of a user who has a
\* detail record leaves the recommendation lists of that record
\* (recommendations_saved, recommendations_selected,
\* recommendations_rejected) and the recommendations_selected of the
\* user's summary row exactly as they were before it, that is as the
\* career-feed sync last wrote them.
C31_ProfileSaveKeepsRecommendations ==
    [][(/\ ops' # ops /\ ret'.op = "handleSave" /\ ret'.saved
        /\ HasDetailRecord)
       => \A before \in {loadUserJson(user_json, currentUser[1].name)} :
          \A after \in {loadUserJson(user_json', currentUser'[1].name)} :
             /\ after # << >>
             /\ \A f \in RecommendationLists : after[1][f] = before[1][f]
             /\ \A i \in RowsOf(csv_users, currentUser[1].email) :
                \A j \in RowsOf(csv_users', currentUser[1].email) :
                   StrOr(csv_users'[j], "recommendations_selected")
                      = StrOr(csv_users[i], "recommendations_selected")]_vars


-----------------------------------------------------------------------------
(* Properties of the session after a new login *)

\* C32: when loginUser succeeds for an email that registerUser has
\* accepted (the user has logged out in between or not), the session
\* carries the user's name and email, so that the profile page loads the
\* user's detail record, a profile save with the loaded form is accepted
\* (saveUserDataDual is called) and saved, and the career-feed sync calls
\* saveUserDataDual.
C32_LoginRestoresSession ==
    (/\ ret.op = "loginUser" /\ ret.success
     /\ toLowerCase(ret.email) \in registered)
    => \A ok \in FetchOutcomes, r \in RandomDraws :
       \A cu \in {getCurrentUser(currentUser, r)} :
          /\ cu # << >>
          /\ TextOr(cu[1], "name") # Empty
          /\ toLowerCase(TextOr(cu[1], "email")) = toLowerCase(ret.email)
          /\ loadUserJson(user_json, TextOr(cu[1], "name")) # << >>
          /\ \A page \in {LoadedProfile(cu[1], user_json)} :
             \A res \in {handleSave(Stores, cu, page, ok, ok, r)} :
                /\ page.form.name = TextOr(cu[1], "name")
                /\ res.called
                /\ res.saved
          /\ syncSavedToJson(Stores, cu, saved, ok, ok, r).called


-----------------------------------------------------------------------------
(* Registration over a store that may fail *)

\* saveUserDataDual with its catch handler, from the check of the payload
\* to its return: a throw of findUserByEmail or of the append reaches the
\* handler, which returns false
TrySaveUserDataDual(S, userData, oldName, oldImagePath, ok1, ok2, full, r) ==
    One({
       IF ~b.valid THEN [result |-> FALSE, S |-> b.S]
       ELSE
       One({
          IF f.threw
          THEN [result |-> FALSE, S |-> [b.S EXCEPT !.csv = f.cache]]
          ELSE
          One({[result |-> IF w.threw THEN FALSE ELSE b.jsonSaved,
                S |-> w.S] :
               w \in {DualWrite([b.S EXCEPT !.csv = f.cache],
                                f.user # << >>, PayloadEmail(userData),
                                SummaryData(userData), oldImagePath, ok2,
                                full, r)}}) :
          f \in {TryFindUserByEmail(b.S.csv, PayloadEmail(userData), ok1,
                                    full, r)}}) :
       b \in {DualBegin(S, userData, oldName, full)}})

\* registerUser with the store possibly failing: threw says that an
\* exception of checkUserExists has passed through registerUser
TryRegisterUser(S, name, email, password, confirmPassword, gender, year, country, oks, full, r) ==
    One({
       IF invalid # ""
       THEN [threw |-> FALSE, success |-> FALSE, error |-> invalid,
             session |-> << >>, saveCalled |-> FALSE, S |-> S]
       ELSE
       One({
          IF userExists.threw
          THEN [threw |-> TRUE, success |-> FALSE, error |-> "",
                session |-> << >>, saveCalled |-> FALSE,
                S |-> [S EXCEPT !.csv = userExists.cache]]
          ELSE IF userExists.exists
          THEN [threw |-> FALSE, success |-> FALSE, error |-> ExistsError,
                session |-> << >>, saveCalled |-> FALSE,
                S |-> [S EXCEPT !.csv = userExists.cache]]
          ELSE
          One({One({
             IF ~dual.result
             THEN [threw |-> FALSE, success |-> FALSE, error |-> CreateError,
                   session |-> << >>, saveCalled |-> TRUE, S |-> dual.S]
             ELSE [threw |-> FALSE, success |-> TRUE, error |-> "",
                   session |-> <<withAvatarMetadata(
                                     [email |-> email, name |-> name,
                                      gender |-> gender, year |-> year,
                                      country |-> country,
                                      avatar |-> avatarFile], r)>>,
                   saveCalled |-> TRUE, S |-> dual.S] :
             dual \in {TrySaveUserDataDual(
                           [S EXCEPT !.csv = userExists.cache],
                           RegisterPayload(name, email, password, gender,
                                           year, country, avatarFile),
                           Empty, "", oks[3], oks[4], full, r)}}) :
             avatarFile \in {getRandomAvatarFile(gender, r)}}) :
          userExists \in {TryCheckUserExists(S.csv, name, email, oks[1],
                                             oks[2], full, r)}}) :
       invalid \in {RegisterValidation(name, email, password,
                                       confirmPassword, gender, year,
                                       country)}})

SubmitError == "An error occurred. Please try again."

\* the signup forms submitted: (name, email, password, confirmPassword)
SubmitForms ==
    { <<NameAl, MailA, SignupPassword, SignupPassword>>,
      <<NameAdl, MailB, SignupPassword, SignupPassword>>,
      <<NameAl, MailA, "abc", "abc">> }

\* SignupPage, handleSubmit: registerUser is called and its error, or the
\* message of the catch handler, is shown
SignupSubmit ==
    /\ Begun
    /\ \E form \in SubmitForms, ok \in FetchOutcomes, full \in FullSets,
          r \in RandomDraws :
        \E res \in {TryRegisterUser(Stores, form[1], form[2], form[3],
                                    form[4], "female", "2001", "BD",
                                    <<ok, ok, ok, ok>>, full, r)} :
           /\ Len(res.S.csv) <= MaxRows
           /\ Written(res.S)
           /\ currentUser' = IF res.session # << >> THEN res.session
                             ELSE currentUser
           /\ registered' = IF res.success
                            THEN registered \cup {toLowerCase(form[2])}
                            ELSE registered
           /\ signedIn' = (res.success \/ signedIn)
           /\ ret' = [op |-> "registerUser", threw |-> res.threw,
                      success |-> res.success,
                      error |-> IF res.threw THEN SubmitError
                                ELSE res.error,
                      saveCalled |-> res.saveCalled, form |-> form,
                      ok |-> ok, full |-> full]
    /\ UNCHANGED <<savedBy, timers, pending, baseline, saved, uploads>>

NextSignup ==
    \/ SignupSubmit
    \/ StoreCorrupted
    \/ LogoutUser

SpecSignup == Init /\ [][NextSignup]_vars

-----------------------------------------------------------------------------
(* Properties of a failed registration *)

\* C33: when registerUser returns the failure "Failed to create account.
\* Please try again." (its saveUserDataDual returned false), no summary row
\* for the email has been added and no session was created, so that a
\* retry with the same form, the store no longer failing and data/d.csv
\* loading or not as it did in the failed attempt, is not rejected as an
\* existing account.
C33_FailedSignupLeavesNoRow ==
    [][(ops' # ops /\ ret'.op = "registerUser" /\ ret'.error = CreateError)
       => \A form \in {ret'.form} :
          /\ ret'.saveCalled
          /\ Cardinality(RowsOf(csv_users', form[2]))
                <= Cardinality(RowsOf(csv_users, form[2]))
          /\ currentUser' = currentUser
          /\ \A ok \in {ret'.ok}, r \in RandomDraws :
                TryRegisterUser([csv |-> csv_users', json |-> user_json',
                                 files |-> user_files',
                                 del |-> deleted_images'],
                                form[1], form[2], form[3], form[4],
                                "female", "2001", "BD", <<ok, ok, ok, ok>>,
                                {}, r).error # ExistsError]_vars


-----------------------------------------------------------------------------
(* Properties of what the session holds *)

\* C34: no session object stored under currentUser (by loginUser, the
\* admin path included, by registerUser or by the profile save) has a
\* password: neither the stored object nor the object getCurrentUser
\* returns has the key password.
C34_SessionHasNoPassword ==
    currentUser # << >> =>
        /\ ~Has(currentUser[1], "password")
        /\ \A r \in RandomDraws :
              ~Has(getCurrentUser(currentUser, r)[1], "password")

\* loginUser has stored the session of a user whose summary row holds the
\* password the login was made with
C34_Witness ==
    /\ ret.op = "loginUser" /\ ret.success
    /\ toLowerCase(ret.email) # MailAdmin
    /\ currentUser # << >>
    /\ HasCredentials(csv_users, ret.email, ret.password)
    /\ ret.password # ""


-----------------------------------------------------------------------------
(* Properties of the saved careers *)

\* the ids of the catalogue entries with the title
IdsOfTitle(title) ==
    {catalog[i].id : i \in {j \in 1..Len(catalog) : catalog[j].title = title}}

\* C35: the recommendations the career-feed sync writes to a user's detail
\* record contain only careers saved while that user was signed in: every
\* id in the recommendations_saved of a detail record, and every title in
\* its recommendations_selected, is of a career on which Save was clicked
\* under a session of the record's email_address; in particular, after
\* user A has saved careers and logged out, a sync for user B puts none of
\* A's saved items into B's record.
C35_OnlyOwnSavedCareers ==
    \A k \in DOMAIN user_json :
        \A rec \in {user_json[k]} :
        \A owner \in {toLowerCase(rec.email_address)} :
            /\ \A i \in 1..Len(rec.recommendations_saved) :
                  <<owner, rec.recommendations_saved[i]>> \in savedBy
            /\ IsArray(rec.recommendations_selected)
               => \A i \in 1..Len(rec.recommendations_selected.arr) :
                     \E id \in IdsOfTitle(rec.recommendations_selected.arr[i]) :
                        <<owner, id>> \in savedBy


-----------------------------------------------------------------------------
(* Properties of the deletion-tracking list *)

\* C36: after any sequence of profile-picture changes by any users, no
\* path in the deleted_images list is the profile_picture of a summary
\* row: every path marked for deferred deletion is referenced by no user.
C36_DeletedImagesUnreferenced ==
    \A i \in 1..Len(deleted_images) :
        \A j \in 1..Len(csv_users) :
            StrOr(csv_users[j], "profile_picture") # deleted_images[i]


-----------------------------------------------------------------------------
(* Properties of updateCSVRow *)

\* the step is a call of updateCSVRow from saveUserDataDual, the store
\* accepting every write and holding a list under csv_users
UpdateCall ==
    /\ pending # << >> /\ pending' = << >>
    /\ pending[1].pc = "update"
    /\ pending[1].full = {}
    /\ csv_users # Unparsable

NineFields ==
    {"full_name", "email_address", "password", "gender", "country", "year",
     "profile_picture", "recommendations_selected", "bio"}

\* the least index of `hits`
Least(hits) == CHOOSE i \in hits : \A j \in hits : i <= j

\* `after` is `before` with the row `first` replaced by exactly the nine
\* summary fields of the payload, every other row and the number of rows
\* being the same
OnlyRowReplaced(before, after, first, payload) ==
    /\ Len(after) = Len(before)
    /\ \A j \in 1..Len(before) : j # first => after[j] = before[j]
    /\ DOMAIN after[first] = NineFields
    /\ \A f \in NineFields : after[first][f] = SummaryData(payload)[f]

\* C37, as stated: updateCSVRow replaces, among the stored rows, only the
\* first row whose email matches ignoring case, with exactly the nine
\* summary fields of the new data; every other stored row and the number
\* of stored rows are unchanged; when no stored row matches it returns
\* false, changes no row and marks no image for deletion.
C37_UpdateReplacesFirstMatch ==
    [][UpdateCall
       => \A hits \in {RowsOf(csv_users,
                              PayloadEmail(pending[1].payload))} :
          /\ hits # {}
             => /\ ret'.written
                /\ OnlyRowReplaced(csv_users, csv_users', Least(hits),
                                   pending[1].payload)
          /\ hits = {}
             => /\ ~ret'.written
                /\ csv_users' = csv_users
                /\ deleted_images' = deleted_images]_vars

\* C37, amended: updateCSVRow works on the list readCSV returns (the rows
\* of data/d.csv merged with the stored rows, every row given an avatar,
\* when data/d.csv loads; the stored rows otherwise).  It replaces only the
\* first row of that list whose email matches ignoring case, with exactly
\* the nine summary fields of the new data (no field of the old row
\* survives), every other row of the list and its length being unchanged,
\* and stores the list; when no row of the list matches it returns false,
\* leaves under csv_users what readCSV has cached and marks no image for
\* deletion.
C37_UpdateReplacesFirstMatchOfReadList ==
    [][UpdateCall
       => \E ok \in FetchOutcomes, r \in RandomDraws :
          \A rd \in {readCSV(csv_users, ok, r)} :
          \A hits \in {RowsOf(rd.users, PayloadEmail(pending[1].payload))} :
             /\ hits # {}
                => /\ ret'.written
                   /\ OnlyRowReplaced(rd.users, csv_users', Least(hits),
                                      pending[1].payload)
             /\ hits = {}
                => /\ ~ret'.written
                   /\ csv_users' = rd.cache
                   /\ deleted_images' = deleted_images]_vars

\* updateCSVRow has replaced the row of the payload, which had a field
\* outside the nine or is not the only row, and has marked the old image
C37_Witness ==
    /\ DualReturned /\ ret.written /\ ret.result
    /\ ret.full = {}
    /\ deleted_images # << >>
    /\ Len(csv_users) >= 2
    /\ \E i \in RowsOf(csv_users, PayloadEmail(ret.payload)) :
          /\ csv_users[i] = SummaryData(ret.payload)
          /\ \E j \in 1..Len(csv_users) :
                /\ j # i
                /\ ~EmailMatches(csv_users[j], PayloadEmail(ret.payload))
                /\ Has(csv_users[j], "avatar")


====
